---- MODULE Spec2Model ----
(***************************************************************************)
(* A model of the diagram editor's core: the geometry kernel (utils.js),   *)
(* the shape model and boundary resolver (shapes.js), the connector        *)
(* binding logic and the undo/redo stacks (history.js, which also holds    *)
(* connectors.js) and the tool state machine (tools.js), with the toolbar  *)
(* handlers of app.js that replace the shape list.                         *)
(*                                                                         *)
(* Numbers.  JavaScript numbers are modelled as exact rationals            *)
(* [n |-> numerator, d |-> denominator > 0] in lowest terms, so that two   *)
(* numbers are equal exactly when their records are equal.  Rounding of    *)
(* IEEE doubles is not modelled: equalities stated here are the equalities *)
(* of the real-number computation the code performs.  A division by zero   *)
(* (which yields Infinity or NaN in JavaScript) and a square root that is  *)
(* not rational stop the evaluation: the input sets below are chosen so    *)
(* that neither is reached.                                                *)
(*                                                                         *)
(* Angles.  Math.atan2 returns the direction of a vector.  A direction is  *)
(* modelled by the vector scaled to |x| + |y| = 1, which is in one-to-one  *)
(* correspondence with the angle modulo 2*pi; atan2(0, 0) = 0 is the       *)
(* direction (1, 0).                                                       *)
(***************************************************************************)
EXTENDS Integers, Sequences, FiniteSets, TLC

VARIABLES
    shapes,         \* tools.js: the shape list, bottom-most first
    selectedIds,    \* tools.js: the selection set
    currentTool,    \* tools.js: the active tool
    isDragging,     \* tools.js: a pointer gesture is in progress
    dragType,       \* tools.js: "none" (null), "draw", "move", "resize", "select-rect"
    dragHandle,     \* tools.js: the handle of a resize drag, "none" for null
    dragStartWorld, \* tools.js: world position of the pointer-down (or of the last resize move)
    dragShape,      \* tools.js: <<>> or <<the shape object a resize drag works on>>
    dragShapeLive,  \* TRUE while the object dragShape refers to is an element of shapes
    dragOrigShapes, \* tools.js: snapshot of the selected shapes at the start of a move
    selectionRect,  \* tools.js: <<>> or <<rubber-band rectangle>>
    drawingShape,   \* tools.js: <<>> or <<the shape being drawn>>
    hoverSnap,      \* tools.js: drawingShape._hoverSnap, <<>> or <<snap result>>
    idCounter,      \* utils.js: _idCounter
    undoStack,      \* history.js: undo snapshots, oldest first
    redoStack,      \* history.js: redo snapshots, oldest first
    scale,          \* canvas.js: the zoom scale
    steps,          \* number of events still to be handled (bounds the exploration)
    lab             \* the record of the binding experiment of SpecGeom

vars == <<shapes, selectedIds, currentTool, isDragging, dragType, dragHandle,
          dragStartWorld, dragShape, dragShapeLive, dragOrigShapes, selectionRect,
          drawingShape, hoverSnap, idCounter, undoStack, redoStack, scale, steps, lab>>

-----------------------------------------------------------------------------
(* Exact rational arithmetic. *)

Abs(i) == IF i < 0 THEN -i ELSE i

RECURSIVE Gcd(_, _)
Gcd(a, b) == IF b = 0 THEN a ELSE Gcd(b, a % b)

\* Stops the evaluation: the value is outside the rationals.
Undefined == CHOOSE v \in {} : TRUE

Rat(n, d) ==
    IF d = 0 THEN Undefined
    ELSE LET g == Gcd(Abs(n), Abs(d))
             s == IF d < 0 THEN -1 ELSE 1
         IN  [n |-> s * (n \div g), d |-> s * (d \div g)]

I(i) == [n |-> i, d |-> 1]

\* Common factors are cancelled before multiplying, to keep the intermediate
\* integers small.
RInv(a)    == IF a.n = 0 THEN Undefined
              ELSE IF a.n < 0 THEN [n |-> -a.d, d |-> -a.n] ELSE [n |-> a.d, d |-> a.n]
RNeg(a)    == [n |-> -a.n, d |-> a.d]
RAbs(a)    == [n |-> Abs(a.n), d |-> a.d]
RAdd(a, b) == LET g == Gcd(a.d, b.d)
              IN  Rat(a.n * (b.d \div g) + b.n * (a.d \div g), (a.d \div g) * b.d)
RSub(a, b) == RAdd(a, RNeg(b))
RMul(a, b) == LET g1 == Gcd(Abs(a.n), b.d)
                  g2 == Gcd(Abs(b.n), a.d)
              IN  IF a.n = 0 \/ b.n = 0 THEN [n |-> 0, d |-> 1]
                  ELSE [n |-> (a.n \div g1) * (b.n \div g2),
                        d |-> (a.d \div g2) * (b.d \div g1)]
RDiv(a, b) == RMul(a, RInv(b))
RLt(a, b)  == LET g == Gcd(a.d, b.d) IN a.n * (b.d \div g) < b.n * (a.d \div g)
RLe(a, b)  == LET g == Gcd(a.d, b.d) IN a.n * (b.d \div g) <= b.n * (a.d \div g)
RMin(a, b) == IF RLt(b, a) THEN b ELSE a
RMax(a, b) == IF RLt(a, b) THEN b ELSE a
RSq(a)     == RMul(a, a)
RHalf(a)   == Rat(a.n, 2 * a.d)
RIsZero(a) == a.n = 0

\* Floor of the square root of a natural number, by bisection.
RECURSIVE ISqrtIn(_, _, _)
ISqrtIn(n, lo, hi) ==
    IF lo >= hi THEN lo
    ELSE LET mid == (lo + hi + 1) \div 2
         IN  IF mid * mid <= n THEN ISqrtIn(n, mid, hi) ELSE ISqrtIn(n, lo, mid - 1)

ISqrt(n) == ISqrtIn(n, 0, IF n < 46340 THEN n ELSE 46340)

\* Math.sqrt of a rational that is the square of a rational.
RSqrt(a) ==
    LET rn == ISqrt(a.n)
        rd == ISqrt(a.d)
    IN  IF rn * rn = a.n /\ rd * rd = a.d THEN [n |-> rn, d |-> rd] ELSE Undefined

Pt(x, y) == [x |-> x, y |-> y]
IPt(x, y) == [x |-> I(x), y |-> I(y)]

\* Math.atan2(dy, dx): the direction of (dx, dy); atan2(0, 0) = 0.
Atan2(dy, dx) ==
    IF RIsZero(dx) /\ RIsZero(dy) THEN Pt(I(1), I(0))
    ELSE LET l == RAdd(RAbs(dx), RAbs(dy))
         IN  Pt(RDiv(dx, l), RDiv(dy, l))

\* Math.cos and Math.sin of a direction.
Norm(angle) == RSqrt(RAdd(RSq(angle.x), RSq(angle.y)))
Cos(angle) == RDiv(angle.x, Norm(angle))
Sin(angle) == RDiv(angle.y, Norm(angle))

-----------------------------------------------------------------------------
(* Distances are only ever compared.  The comparison of two sums of two squares
   is computed in natural numbers of any size: a natural number is here the
   sequence of its digits in base Base, the lowest first, the highest not 0. *)

Base == 100 * 100

RECURSIVE NatOf(_)
NatOf(i) == IF i = 0 THEN <<>> ELSE <<i % Base>> \o NatOf(i \div Base)

\* a + b + c for a carry c.
RECURSIVE NAdd(_, _, _)
NAdd(a, b, c) ==
    IF a = <<>> /\ b = <<>> THEN (IF c = 0 THEN <<>> ELSE <<c>>)
    ELSE IF a = <<>> THEN NAdd(<<0>>, b, c)
    ELSE IF b = <<>> THEN NAdd(a, <<0>>, c)
    ELSE <<(a[1] + b[1] + c) % Base>> \o NAdd(Tail(a), Tail(b), (a[1] + b[1] + c) \div Base)

\* a * m + c for a digit m and a carry c.
RECURSIVE NMulDigit(_, _, _)
NMulDigit(a, m, c) ==
    IF a = <<>> THEN (IF c = 0 THEN <<>> ELSE <<c>>)
    ELSE <<(a[1] * m + c) % Base>> \o NMulDigit(Tail(a), m, (a[1] * m + c) \div Base)

Shift(a) == IF a = <<>> THEN <<>> ELSE <<0>> \o a

RECURSIVE NMul(_, _)
NMul(a, b) ==
    IF a = <<>> \/ b = <<>> THEN <<>>
    ELSE NAdd(NMulDigit(a, b[1], 0), Shift(NMul(a, Tail(b))), 0)

\* -1, 0 or 1 as a is less than, equal to or greater than b, from digit i down.
RECURSIVE NCmp(_, _, _)
NCmp(a, b, i) ==
    IF Len(a) # Len(b) THEN (IF Len(a) < Len(b) THEN -1 ELSE 1)
    ELSE IF i = 0 THEN 0
    ELSE IF a[i] # b[i] THEN (IF a[i] < b[i] THEN -1 ELSE 1)
    ELSE NCmp(a, b, i - 1)

NSquare(a) == NMul(a, a)
NSq(i) == NSquare(NatOf(Abs(i)))

\* The fraction n / d of pn/pd + qn/qd.
NFracSum(pn, pd, qn, qd) == [n |-> NAdd(NMul(pn, qd), NMul(qn, pd), 0), d |-> NMul(pd, qd)]

\* a^2 + b^2 for rationals a and b, as a fraction of natural numbers.
SumSq(a, b) == NFracSum(NSq(a.n), NSq(a.d), NSq(b.n), NSq(b.d))

NProdCmp(l, r) == NCmp(l, r, Len(l))

\* -1, 0 or 1 as a^2 + b^2 is less than, equal to or greater than c^2 + e^2.
FracCmp(p, q) == NProdCmp(NMul(p.n, q.d), NMul(q.n, p.d))
SumSqCmp(a, b, c, e) == FracCmp(SumSq(a, b), SumSq(c, e))

-----------------------------------------------------------------------------
(* utils.js *)

\* Utils.distance(x1, y1, x2, y2) compared with Utils.distance(0, 0, c, e).
DistCmp(x1, y1, x2, y2, c, e) == SumSqCmp(RSub(x2, x1), RSub(y2, y1), c, e)

\* Utils.distance(x1, y1, x2, y2) < limit and <= limit.
distanceLt(x1, y1, x2, y2, limit) == DistCmp(x1, y1, x2, y2, limit, I(0)) < 0
distanceLe(x1, y1, x2, y2, limit) == DistCmp(x1, y1, x2, y2, limit, I(0)) <= 0

\* The point of the segment from (x1, y1) by (dx, dy) at parameter t clamped
\* to [0, 1].
SegmentPoint(x1, y1, dx, dy, t) == Pt(RAdd(x1, RMul(t, dx)), RAdd(y1, RMul(t, dy)))
Clamp01(t) == IF t.n < 0 THEN I(0) ELSE IF t.n > t.d THEN I(1) ELSE t
DistToPointLe(px, py, q, limit) == distanceLe(px, py, q.x, q.y, limit)
SegmentParam(ax, ay, dx, dy) ==
    RDiv(RAdd(RMul(ax, dx), RMul(ay, dy)), RAdd(RSq(dx), RSq(dy)))
SegmentDistLe(px, py, x1, y1, dx, dy, limit) ==
    DistToPointLe(px, py,
                  IF RIsZero(dx) /\ RIsZero(dy) THEN Pt(x1, y1)
                  ELSE SegmentPoint(x1, y1, dx, dy,
                                    Clamp01(SegmentParam(RSub(px, x1), RSub(py, y1), dx, dy))),
                  limit)

\* Utils.pointToSegmentDist(px, py, x1, y1, x2, y2) <= limit.
pointToSegmentDistLe(px, py, x1, y1, x2, y2, limit) ==
    SegmentDistLe(px, py, x1, y1, RSub(x2, x1), RSub(y2, y1), limit)

pointInRect(px, py, x, y, w, h) ==
    /\ RLe(x, px) /\ RLe(px, RAdd(x, w))
    /\ RLe(y, py) /\ RLe(py, RAdd(y, h))

pointInEllipse(px, py, cx, cy, rx, ry) ==
    SumSqCmp(RDiv(RSub(px, cx), rx), RDiv(RSub(py, cy), ry), I(1), I(0)) <= 0

pointInDiamond(px, py, cx, cy, halfW, halfH) ==
    RLe(RAdd(RDiv(RAbs(RSub(px, cx)), halfW), RDiv(RAbs(RSub(py, cy)), halfH)), I(1))

normalizeBounds(x1, y1, x2, y2) ==
    [x |-> RMin(x1, x2), y |-> RMin(y1, y2),
     w |-> RAbs(RSub(x2, x1)), h |-> RAbs(RSub(y2, y1))]

\* A variant that asks for b to lie within a.
rectContains(a, b) ==
    /\ RLe(a.x, b.x) /\ RLe(RAdd(b.x, b.w), RAdd(a.x, a.w))
    /\ RLe(a.y, b.y) /\ RLe(RAdd(b.y, b.h), RAdd(a.y, a.h))

rectsOverlap(a, b) ==
    ~ (\/ RLt(RAdd(a.x, a.w), b.x) \/ RLt(RAdd(b.x, b.w), a.x)
       \/ RLt(RAdd(a.y, a.h), b.y) \/ RLt(RAdd(b.y, b.h), a.y))

-----------------------------------------------------------------------------
(* shapes.js *)

CONTAINER_TYPES ==
    {"rectangle", "ellipse", "diamond",
     "database", "queue", "cache", "server", "cloud", "firewall",
     "loadbalancer", "apigateway", "cdn", "user", "microservice",
     "pubsub", "storage", "function", "container", "eventbus",
     "browser", "mobile", "monitor", "notification", "auth",
     "externalapi", "scheduler", "logger", "search", "datawarehouse",
     "blobstorage", "filestorage", "queuestorage", "tablestorage",
     "datalake", "manageddisks",
     "azuresql", "cosmosdb", "azuremysql", "azurepostgres",
     "sqlmanaged", "rediscache", "datafactory", "synapse"}

\* The types the ellipse and diamond cases of hitTest and getBoundaryPoint name;
\* every other type takes the rectangle case or the default, which is the same.
EllipseTypes == {"ellipse", "cloud", "user"}
DiamondTypes == {"diamond", "microservice"}

IsConnector(shape) == shape.type = "line" \/ shape.type = "arrow"

\* Shapes.create: the fields the geometry and the bindings read.  A null
\* points array, a null binding are the empty sequence; a binding is
\* <<[shapeId, angle]>>.
create(id, type, props) ==
    props @@
    [id |-> id, type |-> type,
     x |-> I(0), y |-> I(0), width |-> I(0), height |-> I(0),
     strokeWidth |-> I(2),
     points |-> <<>>, startBinding |-> <<>>, endBinding |-> <<>>]

RECURSIVE MinX(_, _)
MinX(points, k) == IF k = 1 THEN points[1].x ELSE RMin(points[k].x, MinX(points, k - 1))
RECURSIVE MinY(_, _)
MinY(points, k) == IF k = 1 THEN points[1].y ELSE RMin(points[k].y, MinY(points, k - 1))
RECURSIVE MaxX(_, _)
MaxX(points, k) == IF k = 1 THEN points[1].x ELSE RMax(points[k].x, MaxX(points, k - 1))
RECURSIVE MaxY(_, _)
MaxY(points, k) == IF k = 1 THEN points[1].y ELSE RMax(points[k].y, MaxY(points, k - 1))

BoundsOf(minX, minY, maxX, maxY) ==
    [x |-> minX, y |-> minY, w |-> RSub(maxX, minX), h |-> RSub(maxY, minY)]

PointsBounds(points) ==
    BoundsOf(MinX(points, Len(points)), MinY(points, Len(points)),
             MaxX(points, Len(points)), MaxY(points, Len(points)))

getBounds(shape) ==
    IF \/ IsConnector(shape) /\ Len(shape.points) >= 2
       \/ shape.type = "freehand" /\ Len(shape.points) > 0
    THEN PointsBounds(shape.points)
    ELSE [x |-> shape.x, y |-> shape.y, w |-> shape.width, h |-> shape.height]

CenterX(b) == RAdd(b.x, RHalf(b.w))
CenterY(b) == RAdd(b.y, RHalf(b.h))

\* Some segment of the polyline is within distance limit of (px, py).
NearPolyline(points, px, py, limit) ==
    \E i \in 1..(Len(points) - 1) :
        pointToSegmentDistLe(px, py, points[i].x, points[i].y,
                             points[i + 1].x, points[i + 1].y, limit)

\* The cases of hitTest, b being getBounds(shape).
HitTestIn(shape, b, px, py, tolerance) ==
    IF shape.type \in EllipseTypes
        THEN pointInEllipse(px, py, CenterX(b), CenterY(b),
                            RAdd(RHalf(b.w), tolerance), RAdd(RHalf(b.h), tolerance))
    ELSE IF shape.type \in DiamondTypes
        THEN pointInDiamond(px, py, CenterX(b), CenterY(b),
                            RAdd(RHalf(b.w), tolerance), RAdd(RHalf(b.h), tolerance))
    ELSE IF IsConnector(shape) \/ shape.type = "freehand"
        THEN Len(shape.points) >= 2
             /\ NearPolyline(shape.points, px, py,
                             IF IsConnector(shape)
                                 THEN RAdd(tolerance, shape.strokeWidth)
                                 ELSE RAdd(RAdd(tolerance, shape.strokeWidth), I(2)))
    ELSE pointInRect(px, py, RSub(b.x, tolerance), RSub(b.y, tolerance),
                     RAdd(b.w, RMul(tolerance, I(2))), RAdd(b.h, RMul(tolerance, I(2))))

hitTest(shape, px, py, tolerance) == HitTestIn(shape, getBounds(shape), px, py, tolerance)

\* The handles of a box, in the order getHandleAtPoint tries them.
BoxHandles(b) ==
    <<[name |-> "nw", pos |-> Pt(b.x, b.y)],
      [name |-> "n",  pos |-> Pt(CenterX(b), b.y)],
      [name |-> "ne", pos |-> Pt(RAdd(b.x, b.w), b.y)],
      [name |-> "e",  pos |-> Pt(RAdd(b.x, b.w), CenterY(b))],
      [name |-> "se", pos |-> Pt(RAdd(b.x, b.w), RAdd(b.y, b.h))],
      [name |-> "s",  pos |-> Pt(CenterX(b), RAdd(b.y, b.h))],
      [name |-> "sw", pos |-> Pt(b.x, RAdd(b.y, b.h))],
      [name |-> "w",  pos |-> Pt(b.x, CenterY(b))]>>

\* The handles of a line or arrow.
LineHandles(points) ==
    IF Len(points) >= 2
    THEN <<[name |-> "lineStart", pos |-> points[1]],
           [name |-> "lineEnd", pos |-> points[Len(points)]]>>
    ELSE <<>>

\* The first handle from the i-th on within distance hs of the point.
RECURSIVE FirstHandle(_, _, _, _, _)
FirstHandle(handles, i, px, py, hs) ==
    IF i > Len(handles) THEN "none"
    ELSE IF distanceLe(px, py, handles[i].pos.x, handles[i].pos.y, hs) THEN handles[i].name
    ELSE FirstHandle(handles, i + 1, px, py, hs)

\* Shapes.getHandleAtPoint: the handle name, or "none" for null.
getHandleAtPoint(shape, px, py, handleSize) ==
    IF shape.type = "freehand" THEN "none"
    ELSE FirstHandle(IF IsConnector(shape) THEN LineHandles(shape.points)
                     ELSE BoxHandles(getBounds(shape)),
                     1, px, py, handleSize)

MovePoints(points, dx, dy) ==
    [i \in 1..Len(points) |-> Pt(RAdd(points[i].x, dx), RAdd(points[i].y, dy))]

\* Shapes.move
move(shape, dx, dy) ==
    IF shape.points # <<>>
        THEN [shape EXCEPT !.points = MovePoints(shape.points, dx, dy)]
        ELSE [shape EXCEPT !.x = RAdd(shape.x, dx), !.y = RAdd(shape.y, dy)]

ClampMin(shape) ==
    [shape EXCEPT !.width  = IF RLt(shape.width, I(10)) THEN I(10) ELSE shape.width,
                  !.height = IF RLt(shape.height, I(10)) THEN I(10) ELSE shape.height]

\* The switch of Shapes.resize over the handle.
ResizeBox(shape, handle, dx, dy) ==
    CASE handle = "nw" -> [shape EXCEPT !.x = RAdd(@, dx), !.y = RAdd(@, dy),
                                        !.width = RSub(@, dx), !.height = RSub(@, dy)]
      [] handle = "n"  -> [shape EXCEPT !.y = RAdd(@, dy), !.height = RSub(@, dy)]
      [] handle = "ne" -> [shape EXCEPT !.width = RAdd(@, dx), !.y = RAdd(@, dy),
                                        !.height = RSub(@, dy)]
      [] handle = "e"  -> [shape EXCEPT !.width = RAdd(@, dx)]
      [] handle = "se" -> [shape EXCEPT !.width = RAdd(@, dx), !.height = RAdd(@, dy)]
      [] handle = "s"  -> [shape EXCEPT !.height = RAdd(@, dy)]
      [] handle = "sw" -> [shape EXCEPT !.x = RAdd(@, dx), !.width = RSub(@, dx),
                                        !.height = RAdd(@, dy)]
      [] handle = "w"  -> [shape EXCEPT !.x = RAdd(@, dx), !.width = RSub(@, dx)]
      [] OTHER -> shape

\* Shapes.resize
resize(shape, handle, dx, dy) ==
    IF handle \in {"lineStart", "lineEnd"} /\ shape.points # <<>> THEN
        [shape EXCEPT !.points[IF handle = "lineStart" THEN 1 ELSE Len(shape.points)] =
                          Pt(RAdd(@.x, dx), RAdd(@.y, dy))]
    ELSE ClampMin(ResizeBox(shape, handle, dx, dy))

\* (cx, cy) + sc * (dx, dy)
Along(cx, cy, dx, dy, sc) == Pt(RAdd(cx, RMul(dx, sc)), RAdd(cy, RMul(dy, sc)))

\* _rayRectFromCenter, (dx, dy) being the target less the centre.
RayRect(cx, cy, dx, dy, halfW, halfH) ==
    IF RIsZero(dx) /\ RIsZero(dy) THEN Pt(RAdd(cx, halfW), cy)
    ELSE Along(cx, cy, dx, dy,
               IF RLt(RDiv(RAbs(dy), halfH), RDiv(RAbs(dx), halfW))
                   THEN RDiv(halfW, RAbs(dx))
                   ELSE RDiv(halfH, RAbs(dy)))

rayRectFromCenter(cx, cy, tx, ty, halfW, halfH) ==
    RayRect(cx, cy, RSub(tx, cx), RSub(ty, cy), halfW, halfH)

\* The point of the ellipse at the parameter angle.
EllipsePoint(cx, cy, rx, ry, angle) ==
    Pt(RAdd(cx, RMul(rx, Cos(angle))), RAdd(cy, RMul(ry, Sin(angle))))

\* _rayEllipseFromCenter, (dx, dy) being the target less the centre.
RayEllipse(cx, cy, dx, dy, rx, ry) ==
    IF RIsZero(dx) /\ RIsZero(dy) THEN Pt(RAdd(cx, rx), cy)
    ELSE EllipsePoint(cx, cy, rx, ry, Atan2(dy, dx))

rayEllipseFromCenter(cx, cy, tx, ty, rx, ry) ==
    RayEllipse(cx, cy, RSub(tx, cx), RSub(ty, cy), rx, ry)

\* _rayDiamondFromCenter, (dx, dy) being the target less the centre.
RayDiamond(cx, cy, dx, dy, halfW, halfH) ==
    IF RIsZero(dx) /\ RIsZero(dy) THEN Pt(cx, RSub(cy, halfH))
    ELSE Along(cx, cy, dx, dy,
               RDiv(I(1), RAdd(RDiv(RAbs(dx), halfW), RDiv(RAbs(dy), halfH))))

rayDiamondFromCenter(cx, cy, tx, ty, halfW, halfH) ==
    RayDiamond(cx, cy, RSub(tx, cx), RSub(ty, cy), halfW, halfH)

\* The switch of getBoundaryPoint over the type, for the centre and the half
\* extents of the shape's bounds.
RayFromCenter(type, cx, cy, halfW, halfH, targetX, targetY) ==
    IF type \in EllipseTypes
        THEN rayEllipseFromCenter(cx, cy, targetX, targetY, halfW, halfH)
    ELSE IF type \in DiamondTypes
        THEN rayDiamondFromCenter(cx, cy, targetX, targetY, halfW, halfH)
    ELSE rayRectFromCenter(cx, cy, targetX, targetY, halfW, halfH)

BoundaryPointIn(type, b, targetX, targetY) ==
    RayFromCenter(type, CenterX(b), CenterY(b), RHalf(b.w), RHalf(b.h), targetX, targetY)

getBoundaryPoint(shape, targetX, targetY) ==
    BoundaryPointIn(shape.type, getBounds(shape), targetX, targetY)

far == 10000

\* The point at distance far from the centre of b in direction angle, up to a
\* factor between 1/sqrt(2) and 1 on the distance: the direction vector is used
\* in place of (cos, sin), from which it differs by that positive factor.  Each
\* ray function depends on its target only through the direction of
\* (target - centre), so the factor cancels.
FarTarget(b, angle) ==
    Pt(RAdd(CenterX(b), RMul(angle.x, I(far))), RAdd(CenterY(b), RMul(angle.y, I(far))))

BoundaryPointToward(shape, target) == getBoundaryPoint(shape, target.x, target.y)

getBoundaryPointFromAngle(shape, angle) ==
    BoundaryPointToward(shape, FarTarget(getBounds(shape), angle))

-----------------------------------------------------------------------------
(* connectors.js (in history.js) *)

SNAP_DISTANCE == 20

\* A variant that skips the excluded shapes only.
NotExcluded(shape, excludeIds) == shape.id \notin excludeIds

Snappable(shape, excludeIds) ==
    /\ shape.id \notin excludeIds
    /\ shape.type \notin {"line", "arrow", "freehand", "text"}

\* The result findNearestBoundaryPoint builds for the boundary point bp of the
\* shape with bounds b.
Found(id, b, bp) ==
    [shapeId |-> id,
     angle |-> Atan2(RSub(bp.y, CenterY(b)), RSub(bp.x, CenterX(b))),
     x |-> bp.x, y |-> bp.y]

\* A variant of the loop body whose radius is SNAP_DISTANCE pixels of the
\* screen, that is SNAP_DISTANCE / scale units of the world.
NearerOnScreen(shape, worldX, worldY, best, bp) ==
    IF DistCmp(worldX, worldY, bp.x, bp.y,
               IF best = <<>> THEN RDiv(I(SNAP_DISTANCE), scale) ELSE RSub(best[1].x, worldX),
               IF best = <<>> THEN I(0) ELSE RSub(best[1].y, worldY)) < 0
    THEN <<Found(shape.id, getBounds(shape), bp)>>
    ELSE best

\* A variant of the loop body that also takes a shape as near as the best so
\* far.
NearerOrAsNear(shape, worldX, worldY, best, bp) ==
    IF DistCmp(worldX, worldY, bp.x, bp.y,
               IF best = <<>> THEN I(SNAP_DISTANCE) ELSE RSub(best[1].x, worldX),
               IF best = <<>> THEN I(0) ELSE RSub(best[1].y, worldY)) <= 0
    THEN <<Found(shape.id, getBounds(shape), bp)>>
    ELSE best

\* The body of the loop of findNearestBoundaryPoint for a shape that is not
\* skipped and its boundary point bp; best is <<>> or <<the best result so
\* far>>, and bestDist is SNAP_DISTANCE or the distance to that result.
Nearer(shape, worldX, worldY, best, bp) ==
    IF DistCmp(worldX, worldY, bp.x, bp.y,
               IF best = <<>> THEN I(SNAP_DISTANCE) ELSE RSub(best[1].x, worldX),
               IF best = <<>> THEN I(0) ELSE RSub(best[1].y, worldY)) < 0
    THEN <<Found(shape.id, getBounds(shape), bp)>>
    ELSE best

\* The loop of findNearestBoundaryPoint from element i on.
RECURSIVE NearestFrom(_, _, _, _, _, _)
NearestFrom(list, i, worldX, worldY, excludeIds, best) ==
    IF i > Len(list) THEN best
    ELSE NearestFrom(list, i + 1, worldX, worldY, excludeIds,
                     IF Snappable(list[i], excludeIds)
                         THEN Nearer(list[i], worldX, worldY, best,
                                     getBoundaryPoint(list[i], worldX, worldY))
                         ELSE best)

\* The result is <<>> for null, <<[shapeId, angle, x, y]>> otherwise.
findNearestBoundaryPoint(list, worldX, worldY, excludeIds) ==
    NearestFrom(list, 1, worldX, worldY, excludeIds, <<>>)

\* The index of the first shape with that id from element i on, 0 if none.
RECURSIVE IndexFrom(_, _, _)
IndexFrom(list, id, i) ==
    IF i > Len(list) THEN 0
    ELSE IF list[i].id = id THEN i
    ELSE IndexFrom(list, id, i + 1)

IndexOf(list, id) == IndexFrom(list, id, 1)

At(list, i) == IF i = 0 THEN <<>> ELSE <<list[i]>>

\* shapes.find(s => s.id === id): <<>> or <<the first shape with that id>>.
find(list, id) == At(list, IndexOf(list, id))

Binding(snap) == <<[shapeId |-> snap.shapeId, angle |-> snap.angle]>>
SnapPt(snap) == Pt(snap.x, snap.y)

\* The two ends of a connector: its binding and the index of its point.
Ends == <<"start", "end">>
BindingAt(shape, end) == IF end = "start" THEN shape.startBinding ELSE shape.endBinding
PointIndex(shape, end) == IF end = "start" THEN 1 ELSE Len(shape.points)
Bindable(shape) == IsConnector(shape) /\ Len(shape.points) >= 2

\* The shape with the point of that end put where the binding's angle meets the
\* target's boundary.
Repoint(shape, end, target, angle) ==
    [shape EXCEPT !.points[PointIndex(shape, end)] = getBoundaryPointFromAngle(target, angle)]

Unbind(shape, end) ==
    IF end = "start" THEN [shape EXCEPT !.startBinding = <<>>]
    ELSE [shape EXCEPT !.endBinding = <<>>]

\* One of the two if statements of the loop of updateBindings; target is
\* shapes.find(...) of the moved id.
UpdateEnd(shape, end, binding, movedShapeId, target) ==
    IF Bindable(shape) /\ binding # <<>> /\ binding[1].shapeId = movedShapeId
       /\ target # <<>>
    THEN Repoint(shape, end, target[1], binding[1].angle)
    ELSE shape

\* The loop of updateBindings from the e-th end of element i on.
RECURSIVE UpdateFrom(_, _, _, _)
UpdateFrom(list, i, e, movedShapeId) ==
    IF i > Len(list) THEN list
    ELSE UpdateFrom([list EXCEPT ![i] = UpdateEnd(list[i], Ends[e], BindingAt(list[i], Ends[e]),
                                                  movedShapeId, find(list, movedShapeId))],
                    IF e = 1 THEN i ELSE i + 1, IF e = 1 THEN 2 ELSE 1, movedShapeId)

\* A variant that leaves every bound endpoint where it was.
BindingsLeftBehind(list, movedShapeId) == list

updateBindings(list, movedShapeId) == UpdateFrom(list, 1, 1, movedShapeId)

\* A variant that leaves alone the bindings whose target is not found.
ResolveEndFound(shape, end, binding, target) ==
    IF ~ Bindable(shape) \/ binding = <<>> THEN shape
    ELSE IF target # <<>> THEN Repoint(shape, end, target[1], binding[1].angle)
    ELSE shape

\* One of the two if statements of the loop of resolveAllBindings; target is
\* shapes.find(...) of the binding's id.
ResolveEnd(shape, end, binding, target) ==
    IF ~ Bindable(shape) \/ binding = <<>> THEN shape
    ELSE IF target # <<>> THEN Repoint(shape, end, target[1], binding[1].angle)
    ELSE Unbind(shape, end)

TargetOf(list, binding) == IF binding = <<>> THEN <<>> ELSE find(list, binding[1].shapeId)

\* The loop of resolveAllBindings from the e-th end of element i on.
RECURSIVE ResolveFrom(_, _, _)
ResolveFrom(list, i, e) ==
    IF i > Len(list) THEN list
    ELSE ResolveFrom([list EXCEPT ![i] = ResolveEnd(list[i], Ends[e], BindingAt(list[i], Ends[e]),
                                                    TargetOf(list, BindingAt(list[i], Ends[e])))],
                     IF e = 1 THEN i ELSE i + 1, IF e = 1 THEN 2 ELSE 1)

resolveAllBindings(list) == ResolveFrom(list, 1, 1)

-----------------------------------------------------------------------------
(* history.js *)

MAX_STACK == 100

\* A variant that refuses the snapshot pushed on a full stack.
DropNewest(stack) == IF Len(stack) > MAX_STACK THEN SubSeq(stack, 1, MAX_STACK) ELSE stack

DropOldest(stack) == IF Len(stack) > MAX_STACK THEN Tail(stack) ELSE stack

\* History.push: the new undo stack (the redo stack becomes empty).
HistoryPush(stack, list) == DropOldest(Append(stack, list))

-----------------------------------------------------------------------------
(* tools.js: the selection (a JavaScript Set keeps insertion order) *)

Range(f) == {f[i] : i \in DOMAIN f}
Ids(list) == {list[i].id : i \in 1..Len(list)}
Has(sel, id) == id \in Range(sel)
SetAdd(sel, id) == IF Has(sel, id) THEN sel ELSE Append(sel, id)
SetDelete(sel, id) == SelectSeq(sel, LAMBDA e : e # id)

RECURSIVE AddAll(_, _, _)
AddAll(sel, ids, i) ==
    IF i > Len(ids) THEN sel ELSE AddAll(SetAdd(sel, ids[i]), ids, i + 1)

Keep(list, sel) == SelectSeq(list, LAMBDA sh : Has(sel, sh.id))
Drop(list, sel) == SelectSeq(list, LAMBDA sh : ~ Has(sel, sh.id))

\* The tool's stroke width (0.5 unless the toolbar changed it).
strokeWidth == Rat(1, 2)

\* The tools whose case in onPointerDown and handleDrawMove draws a box.
BoxTools ==
    {"rectangle", "ellipse", "diamond", "database", "queue", "cache", "server",
     "cloud", "firewall", "loadbalancer", "apigateway", "cdn", "user",
     "microservice", "pubsub", "storage", "function", "container", "eventbus",
     "browser", "mobile", "monitor", "notification", "auth", "externalapi",
     "scheduler", "logger", "search", "datawarehouse"}

\* The editor's state as one record, so that a handler is an operator from the
\* state before it to the state after it and a call is a composition.
St ==
    [shapes |-> shapes, selectedIds |-> selectedIds, currentTool |-> currentTool,
     isDragging |-> isDragging, dragType |-> dragType, dragHandle |-> dragHandle,
     dragStartWorld |-> dragStartWorld, dragShape |-> dragShape,
     dragShapeLive |-> dragShapeLive, dragOrigShapes |-> dragOrigShapes,
     selectionRect |-> selectionRect, drawingShape |-> drawingShape,
     hoverSnap |-> hoverSnap, idCounter |-> idCounter,
     undoStack |-> undoStack, redoStack |-> redoStack]

Becomes(s) ==
    /\ shapes' = s.shapes
    /\ selectedIds' = s.selectedIds
    /\ currentTool' = s.currentTool
    /\ isDragging' = s.isDragging
    /\ dragType' = s.dragType
    /\ dragHandle' = s.dragHandle
    /\ dragStartWorld' = s.dragStartWorld
    /\ dragShape' = s.dragShape
    /\ dragShapeLive' = s.dragShapeLive
    /\ dragOrigShapes' = s.dragOrigShapes
    /\ selectionRect' = s.selectionRect
    /\ drawingShape' = s.drawingShape
    /\ hoverSnap' = s.hoverSnap
    /\ idCounter' = s.idCounter
    /\ undoStack' = s.undoStack
    /\ redoStack' = s.redoStack

\* History.push(shapes) as the tools call it.
push(s) == [s EXCEPT !.undoStack = HistoryPush(s.undoStack, s.shapes), !.redoStack = <<>>]

\* tools.js setTool (no text is being edited).
setTool(s, tool) ==
    [s EXCEPT !.currentTool = tool,
              !.selectedIds = IF tool # "select" THEN <<>> ELSE s.selectedIds]

-----------------------------------------------------------------------------
(* tools.js: pointer down *)

HandleOf(found, world, hs) ==
    IF found = <<>> THEN "none" ELSE getHandleAtPoint(found[1], world.x, world.y, hs)

\* The first selected shape, in selection order from the i-th on, with a handle
\* at the point: <<>> or <<[id, handle]>>.
RECURSIVE HandleHit(_, _, _, _, _)
HandleFound(sel, list, world, hs, i, handle) ==
    IF handle # "none" THEN <<[id |-> sel[i], handle |-> handle]>>
    ELSE HandleHit(sel, list, world, hs, i + 1)

HandleHit(sel, list, world, hs, i) ==
    IF i > Len(sel) THEN <<>>
    ELSE HandleFound(sel, list, world, hs, i, HandleOf(find(list, sel[i]), world, hs))

\* The top-most shape under the point from element i down: <<>> or <<shape>>.
RECURSIVE TopHit(_, _, _, _)
TopHit(list, i, world, tolerance) ==
    IF i = 0 THEN <<>>
    ELSE IF hitTest(list[i], world.x, world.y, tolerance) THEN <<list[i]>>
    ELSE TopHit(list, i - 1, world, tolerance)

\* The selection after a click on the shape id.
Clicked(sel, id, shiftKey) ==
    IF shiftKey THEN (IF Has(sel, id) THEN SetDelete(sel, id) ELSE SetAdd(sel, id))
    ELSE IF Has(sel, id) THEN sel ELSE <<id>>

StartMove(s, sel) ==
    push([s EXCEPT !.selectedIds = sel, !.isDragging = TRUE, !.dragType = "move",
                   !.dragOrigShapes = Keep(s.shapes, sel)])

\* handleSelectDown, handle being the handle under the point and clicked the
\* shape under the point.
SelectDown(s, world, shiftKey, handle, clicked) ==
    IF handle # <<>> THEN
        [s EXCEPT !.isDragging = TRUE, !.dragType = "resize",
                  !.dragHandle = handle[1].handle,
                  !.dragShape = <<handle[1].id>>, !.dragShapeLive = TRUE]
    ELSE IF clicked # <<>> THEN
        StartMove(s, Clicked(s.selectedIds, clicked[1].id, shiftKey))
    ELSE
        [s EXCEPT !.selectedIds = IF shiftKey THEN s.selectedIds ELSE <<>>,
                  !.isDragging = TRUE, !.dragType = "select-rect",
                  !.selectionRect = <<[x |-> world.x, y |-> world.y,
                                       w |-> I(0), h |-> I(0)]>>]

handleSelectDown(s, world, shiftKey) ==
    SelectDown(s, world, shiftKey,
               HandleHit(s.selectedIds, s.shapes, world, RDiv(I(8), scale), 1),
               TopHit(s.shapes, Len(s.shapes), world, RDiv(I(6), scale)))

BeginDraw(s, id, shape) ==
    [s EXCEPT !.drawingShape = <<shape>>, !.hoverSnap = <<>>, !.idCounter = id,
              !.isDragging = TRUE, !.dragType = "draw"]

\* The line or arrow a pointer-down creates, startSnap being the snap result.
NewConnector(id, tool, world, startSnap) ==
    IF startSnap # <<>>
    THEN create(id, tool, [points |-> <<SnapPt(startSnap[1]), SnapPt(startSnap[1])>>,
                           strokeWidth |-> strokeWidth,
                           startBinding |-> Binding(startSnap[1])])
    ELSE create(id, tool, [points |-> <<world, world>>, strokeWidth |-> strokeWidth,
                           startBinding |-> <<>>])

\* The switch of onPointerDown over the tool, after dragStartWorld is set.
ToolDown(s, world, shiftKey) ==
    IF s.currentTool = "select" THEN handleSelectDown(s, world, shiftKey)
    ELSE IF s.currentTool \in BoxTools THEN
        BeginDraw(s, s.idCounter + 1,
                  create(s.idCounter + 1, s.currentTool,
                         [x |-> world.x, y |-> world.y, width |-> I(0), height |-> I(0),
                          strokeWidth |-> strokeWidth]))
    ELSE IF s.currentTool \in {"line", "arrow"} THEN
        BeginDraw(s, s.idCounter + 1,
                  NewConnector(s.idCounter + 1, s.currentTool, world,
                               findNearestBoundaryPoint(s.shapes, world.x, world.y, {})))
    ELSE IF s.currentTool = "freehand" THEN
        BeginDraw(s, s.idCounter + 1,
                  create(s.idCounter + 1, "freehand",
                         [points |-> <<world>>, strokeWidth |-> strokeWidth]))
    ELSE s

\* onPointerDown for the primary button.
onPointerDown(s, world, shiftKey) ==
    ToolDown([s EXCEPT !.dragStartWorld = world], world, shiftKey)

-----------------------------------------------------------------------------
(* tools.js: pointer move *)

Boxed(d, bounds) ==
    [d EXCEPT !.x = bounds.x, !.y = bounds.y, !.width = bounds.w, !.height = bounds.h]

StartExcluded(d) == IF d.startBinding # <<>> THEN {d.startBinding[1].shapeId} ELSE {}

\* The line/arrow case of handleDrawMove, endSnap being the snap result.
DrawTo(s, d, world, endSnap) ==
    [s EXCEPT !.drawingShape =
                  <<[d EXCEPT !.points[2] = IF endSnap # <<>> THEN SnapPt(endSnap[1])
                                            ELSE world]>>,
              !.hoverSnap = endSnap]

\* handleDrawMove for the shape d being drawn.
DrawMove(s, world, d) ==
    IF d.type \in BoxTools THEN
        [s EXCEPT !.drawingShape =
            <<Boxed(d, normalizeBounds(s.dragStartWorld.x, s.dragStartWorld.y,
                                       world.x, world.y))>>]
    ELSE IF IsConnector(d) THEN
        DrawTo(s, d, world,
               findNearestBoundaryPoint(s.shapes, world.x, world.y, StartExcluded(d)))
    ELSE IF d.type = "freehand" THEN
        [s EXCEPT !.drawingShape = <<[d EXCEPT !.points = Append(@, world)]>>]
    ELSE s

handleDrawMove(s, world) ==
    IF s.drawingShape = <<>> THEN s ELSE DrawMove(s, world, s.drawingShape[1])

Detached(shape) ==
    IF IsConnector(shape) THEN [shape EXCEPT !.startBinding = <<>>, !.endBinding = <<>>]
    ELSE shape

\* A variant that moves the shape from where the previous event left it.
MovedOn(shape, orig, dx, dy) ==
    IF shape.points # <<>>
    THEN Detached([shape EXCEPT !.points = MovePoints(shape.points, dx, dy)])
    ELSE [shape EXCEPT !.x = RAdd(shape.x, dx), !.y = RAdd(shape.y, dy)]

\* The shape moved to its snapshot's position plus (dx, dy).
Moved(shape, orig, dx, dy) ==
    IF shape.points # <<>>
    THEN Detached([shape EXCEPT !.points = MovePoints(orig.points, dx, dy)])
    ELSE [shape EXCEPT !.x = RAdd(orig.x, dx), !.y = RAdd(orig.y, dy)]

\* The body of the loop of handleMoveMove for the snapshot orig, i being the
\* index of the shape with the snapshot's id.
MoveAt(list, i, orig, dx, dy) ==
    IF i = 0 THEN list
    ELSE updateBindings([list EXCEPT ![i] = Moved(list[i], orig, dx, dy)], list[i].id)

RECURSIVE MoveFrom(_, _, _, _, _)
MoveFrom(list, origs, k, dx, dy) ==
    IF k > Len(origs) THEN list
    ELSE MoveFrom(MoveAt(list, IndexOf(list, origs[k].id), origs[k], dx, dy),
                  origs, k + 1, dx, dy)

handleMoveMove(s, world) ==
    [s EXCEPT !.shapes = MoveFrom(s.shapes, s.dragOrigShapes, 1,
                                  RSub(world.x, s.dragStartWorld.x),
                                  RSub(world.y, s.dragStartWorld.y))]

\* The index in the list of the object dragShape refers to, 0 when that object
\* is no longer an element of the list.
DragIndex(s) ==
    IF s.dragShape = <<>> \/ ~ s.dragShapeLive THEN 0
    ELSE IndexOf(s.shapes, s.dragShape[1])

EndOfHandle(handle) == IF handle = "lineStart" THEN "start" ELSE "end"

IsEndpointDrag(shape, handle) ==
    IsConnector(shape) /\ shape.points # <<>> /\ handle \in {"lineStart", "lineEnd"}

\* The shape after the resize step, snap being the snap result of an endpoint.
ResizedWith(shape, handle, dx, dy, snap) ==
    IF snap # <<>>
    THEN [shape EXCEPT !.points[PointIndex(shape, EndOfHandle(handle))] = SnapPt(snap[1])]
    ELSE resize(shape, handle, dx, dy)

Resized(s, shape, world, dx, dy) ==
    ResizedWith(shape, s.dragHandle, dx, dy,
                IF IsEndpointDrag(shape, s.dragHandle)
                    THEN findNearestBoundaryPoint(s.shapes, world.x, world.y, {shape.id})
                    ELSE <<>>)

\* handleResizeMove, i being the index of the shape resized: when the object
\* resized is not in the list, only the propagation reaches the list.
ResizeMove(s, i, world, dx, dy) ==
    IF s.dragShape = <<>> THEN [s EXCEPT !.dragStartWorld = world]
    ELSE [s EXCEPT !.dragStartWorld = world,
                   !.shapes = updateBindings(
                       IF i = 0 THEN s.shapes
                       ELSE [s.shapes EXCEPT ![i] = Resized(s, s.shapes[i], world, dx, dy)],
                       s.dragShape[1])]

handleResizeMove(s, world) ==
    ResizeMove(s, DragIndex(s), world,
               RSub(world.x, s.dragStartWorld.x), RSub(world.y, s.dragStartWorld.y))

onPointerMove(s, world) ==
    IF ~ s.isDragging THEN s
    ELSE CASE s.dragType = "draw" -> handleDrawMove(s, world)
           [] s.dragType = "move" -> handleMoveMove(s, world)
           [] s.dragType = "resize" -> handleResizeMove(s, world)
           [] s.dragType = "select-rect" ->
                [s EXCEPT !.selectionRect =
                    <<normalizeBounds(s.dragStartWorld.x, s.dragStartWorld.y,
                                      world.x, world.y)>>]
           [] OTHER -> s

-----------------------------------------------------------------------------
(* tools.js: pointer up *)

\* A variant that rejects only the shapes of no extent at all.
TooSmallClick(d) ==
    IF d.type \in CONTAINER_TYPES THEN RIsZero(d.width) /\ RIsZero(d.height)
    ELSE IF IsConnector(d) /\ d.points # <<>> THEN d.points[1] = d.points[2]
    ELSE IF d.type = "freehand" /\ d.points # <<>> THEN Len(d.points) < 2
    ELSE FALSE

\* The tooSmall test of finishDraw.
TooSmall(d) ==
    IF d.type \in CONTAINER_TYPES THEN RLt(d.width, I(5)) /\ RLt(d.height, I(5))
    ELSE IF IsConnector(d) /\ d.points # <<>> THEN
        distanceLt(d.points[1].x, d.points[1].y, d.points[2].x, d.points[2].y, I(5))
    ELSE IF d.type = "freehand" /\ d.points # <<>> THEN Len(d.points) < 3
    ELSE FALSE

WithEndBinding(d, snap) ==
    IF IsConnector(d) /\ snap # <<>> THEN [d EXCEPT !.endBinding = Binding(snap[1])] ELSE d

\* A variant that pushes the snapshot once the shape is in the list.
CommitThenPush(s, d) ==
    [push([s EXCEPT !.shapes = Append(s.shapes, WithEndBinding(d, s.hoverSnap))])
        EXCEPT !.selectedIds = <<d.id>>]

Commit(s, d) ==
    [push(s) EXCEPT !.shapes = Append(s.shapes, WithEndBinding(d, s.hoverSnap)),
                    !.selectedIds = <<d.id>>]

finishDraw(s) ==
    IF s.drawingShape = <<>> THEN s
    ELSE setTool(IF TooSmall(s.drawingShape[1]) THEN s ELSE Commit(s, s.drawingShape[1]),
                 "select")

SetEnd(shape, end, pt, binding) ==
    IF end = "start"
    THEN [shape EXCEPT !.points[1] = pt, !.startBinding = binding]
    ELSE [shape EXCEPT !.points[Len(shape.points)] = pt, !.endBinding = binding]

\* A variant that records the binding and leaves the endpoint where the drag
\* put it.
RebindEndInPlace(shape, end, snap) ==
    IF snap # <<>> THEN SetEnd(shape, end, shape.points[PointIndex(shape, end)], Binding(snap[1]))
    ELSE Unbind(shape, end)

\* The endpoint bound to the snap result, or unbound if there is none.
RebindEnd(shape, end, snap) ==
    IF snap # <<>> THEN SetEnd(shape, end, SnapPt(snap[1]), Binding(snap[1]))
    ELSE Unbind(shape, end)

EndPoint(shape, end) == shape.points[PointIndex(shape, end)]

\* The endpoint of element i snapped to the nearest boundary point of the list.
Resnap(list, i, end) ==
    RebindEnd(list[i], end,
              findNearestBoundaryPoint(list, EndPoint(list[i], end).x,
                                       EndPoint(list[i], end).y, {list[i].id}))

\* The body of the loop of _tryRebindArrowsAfterMove for element i, from the
\* e-th end on.
RECURSIVE RebindEnds(_, _, _)
RebindEnds(list, i, e) ==
    IF e > 2 THEN list
    ELSE RebindEnds([list EXCEPT ![i] = Resnap(list, i, Ends[e])], i, e + 1)

RebindAt(list, i) ==
    IF i = 0 THEN list
    ELSE IF ~ Bindable(list[i]) THEN list
    ELSE RebindEnds(list, i, 1)

RECURSIVE RebindFrom(_, _, _)
RebindFrom(list, sel, k) ==
    IF k > Len(sel) THEN list
    ELSE RebindFrom(RebindAt(list, IndexOf(list, sel[k])), sel, k + 1)

tryRebindArrowsAfterMove(s) ==
    [s EXCEPT !.shapes = RebindFrom(s.shapes, s.selectedIds, 1)]

\* _tryRebindAfterResize, i being the index of the shape resized.
RebindResized(s, i) ==
    IF i = 0 THEN s
    ELSE IF ~ Bindable(s.shapes[i]) \/ s.dragHandle \notin {"lineStart", "lineEnd"} THEN s
    ELSE [s EXCEPT !.shapes[i] = Resnap(s.shapes, i, EndOfHandle(s.dragHandle))]

tryRebindAfterResize(s) == RebindResized(s, DragIndex(s))

RECURSIVE AddOverlapping(_, _, _, _)
AddOverlapping(sel, list, rect, i) ==
    IF i > Len(list) THEN sel
    ELSE AddOverlapping(IF rectsOverlap(rect, getBounds(list[i]))
                            THEN SetAdd(sel, list[i].id) ELSE sel,
                        list, rect, i + 1)

finishSelectRect(s) ==
    IF s.selectionRect = <<>> THEN s
    ELSE [s EXCEPT !.selectedIds = AddOverlapping(s.selectedIds, s.shapes,
                                                  s.selectionRect[1], 1),
                   !.selectionRect = <<>>]

\* The end of onPointerUp: the gesture's state is reset.
EndDrag(s) ==
    [s EXCEPT !.isDragging = FALSE, !.dragType = "none", !.dragHandle = "none",
              !.drawingShape = <<>>, !.hoverSnap = <<>>,
              !.dragOrigShapes = <<>>, !.selectionRect = <<>>]

onPointerUp(s) ==
    IF ~ s.isDragging THEN s
    ELSE EndDrag(CASE s.dragType = "draw" -> finishDraw(s)
                   [] s.dragType = "move" -> push(tryRebindArrowsAfterMove(s))
                   [] s.dragType = "resize" -> push(tryRebindAfterResize(s))
                   [] s.dragType = "select-rect" -> finishSelectRect(s)
                   [] OTHER -> s)

-----------------------------------------------------------------------------
(* tools.js: commands *)

\* A variant that drops both bindings of a shape as soon as one of them names
\* a deleted shape.
ClearBoth(shape, deleted) ==
    IF \/ shape.startBinding # <<>> /\ Has(deleted, shape.startBinding[1].shapeId)
       \/ shape.endBinding # <<>> /\ Has(deleted, shape.endBinding[1].shapeId)
    THEN [shape EXCEPT !.startBinding = <<>>, !.endBinding = <<>>]
    ELSE shape

ClearDeleted(shape, deleted) ==
    [shape EXCEPT
        !.startBinding = IF @ # <<>> /\ Has(deleted, @[1].shapeId) THEN <<>> ELSE @,
        !.endBinding   = IF @ # <<>> /\ Has(deleted, @[1].shapeId) THEN <<>> ELSE @]

Repaired(kept, deleted) == [i \in 1..Len(kept) |-> ClearDeleted(kept[i], deleted)]

deleteSelected(s) ==
    IF Len(s.selectedIds) = 0 THEN s
    ELSE [push(s) EXCEPT !.shapes = Repaired(Drop(s.shapes, s.selectedIds), s.selectedIds),
                         !.selectedIds = <<>>,
                         !.dragShapeLive = s.dragShapeLive /\ s.dragShape # <<>>
                                           /\ ~ Has(s.selectedIds, s.dragShape[1])]

\* The body of the loop of duplicateSelected, orig being shapes.find(...); acc
\* carries the list, the new ids and the id counter.
AddCopy(acc, orig) ==
    IF orig = <<>> THEN acc
    ELSE [shapes |-> Append(acc.shapes,
                            move([orig[1] EXCEPT !.id = acc.idCounter + 1], I(20), I(20))),
          newIds |-> Append(acc.newIds, acc.idCounter + 1),
          idCounter |-> acc.idCounter + 1]

RECURSIVE DuplicateFrom(_, _, _)
DuplicateFrom(acc, sel, k) ==
    IF k > Len(sel) THEN acc
    ELSE DuplicateFrom(AddCopy(acc, find(acc.shapes, sel[k])), sel, k + 1)

Duplicated(p, r) ==
    [p EXCEPT !.shapes = r.shapes, !.selectedIds = r.newIds, !.idCounter = r.idCounter]

duplicateSelected(s) ==
    IF Len(s.selectedIds) = 0 THEN s
    ELSE Duplicated(push(s),
                    DuplicateFrom([shapes |-> s.shapes, newIds |-> <<>>,
                                   idCounter |-> s.idCounter], s.selectedIds, 1))

selectAll(s) ==
    [s EXCEPT !.selectedIds = [i \in 1..Len(s.shapes) |-> s.shapes[i].id]]

\* A variant of undo that clears the selection whatever History.undo returns.
undoClearing(s) ==
    IF Len(s.undoStack) = 0 THEN [s EXCEPT !.selectedIds = <<>>]
    ELSE [s EXCEPT !.redoStack = Append(s.redoStack, s.shapes),
                   !.undoStack = SubSeq(s.undoStack, 1, Len(s.undoStack) - 1),
                   !.shapes = s.undoStack[Len(s.undoStack)],
                   !.selectedIds = <<>>,
                   !.dragShapeLive = FALSE]

\* Tools.undo with History.undo.
undo(s) ==
    IF Len(s.undoStack) = 0 THEN s
    ELSE [s EXCEPT !.redoStack = Append(s.redoStack, s.shapes),
                   !.undoStack = SubSeq(s.undoStack, 1, Len(s.undoStack) - 1),
                   !.shapes = s.undoStack[Len(s.undoStack)],
                   !.selectedIds = <<>>,
                   !.dragShapeLive = FALSE]

\* A redo that does not record the list it replaces.
redoForgetting(s) ==
    IF Len(s.redoStack) = 0 THEN s
    ELSE [s EXCEPT !.redoStack = SubSeq(s.redoStack, 1, Len(s.redoStack) - 1),
                   !.shapes = s.redoStack[Len(s.redoStack)],
                   !.selectedIds = <<>>,
                   !.dragShapeLive = FALSE]

\* Tools.redo with History.redo.
redo(s) ==
    IF Len(s.redoStack) = 0 THEN s
    ELSE [s EXCEPT !.undoStack = Append(s.undoStack, s.shapes),
                   !.redoStack = SubSeq(s.redoStack, 1, Len(s.redoStack) - 1),
                   !.shapes = s.redoStack[Len(s.redoStack)],
                   !.selectedIds = <<>>,
                   !.dragShapeLive = FALSE]

-----------------------------------------------------------------------------
(* app.js: the handlers that replace the shape list *)

\* The click handler of clearAllBtn, the confirmation accepted.
clearAll(s) ==
    IF Len(s.shapes) = 0 THEN s
    ELSE [push(s) EXCEPT !.shapes = <<>>, !.dragShapeLive = FALSE]

\* The callback of Export.fromJSON in the change handler of importFileInput.
importShapes(s, loaded) ==
    [push(s) EXCEPT !.shapes = resolveAllBindings(loaded), !.dragShapeLive = FALSE]

-----------------------------------------------------------------------------
(* The events.  Each action is one event handled to completion. *)

\* Every event spends one of the steps the run started with.
Event(s) ==
    /\ steps > 0
    /\ steps' = steps - 1
    /\ Becomes(s)
    /\ UNCHANGED <<scale, lab>>

SetTool(tool) == Event(setTool(St, tool))

\* A pointer-down follows a pointer-up: one pointer, primary button.
PointerDown(world, shiftKey) ==
    /\ ~ isDragging
    /\ Event(onPointerDown(St, world, shiftKey))

PointerMove(world) ==
    /\ isDragging
    /\ Event(onPointerMove(St, world))

PointerUp ==
    /\ isDragging
    /\ Event(onPointerUp(St))

DeleteSelected == Event(deleteSelected(St))
DuplicateSelected == Event(duplicateSelected(St))
SelectAll == Event(selectAll(St))
Undo == Event(undo(St))
Redo == Event(redo(St))
ClearAll == Event(clearAll(St))
Import(loaded) == Event(importShapes(St, loaded))

\* The state after app.js has started with the autosaved list saved; budget
\* events are to come.
Boot(saved, budget) ==
    LET loaded == resolveAllBindings(saved)
    IN  /\ shapes = loaded
        /\ undoStack = IF Len(saved) > 0 THEN <<loaded>> ELSE <<>>
        /\ redoStack = <<>>
        /\ selectedIds = <<>>
        /\ currentTool = "select"
        /\ isDragging = FALSE
        /\ dragType = "none"
        /\ dragHandle = "none"
        /\ dragStartWorld = <<>>
        /\ dragShape = <<>>
        /\ dragShapeLive = FALSE
        /\ dragOrigShapes = <<>>
        /\ selectionRect = <<>>
        /\ drawingShape = <<>>
        /\ hoverSnap = <<>>
        /\ idCounter = 0
        /\ scale = I(1)
        /\ steps = budget
        /\ lab = <<>>

\* The pointer gestures over a set of world points, the shift key being held
\* or not as shifts says.
Pointer(points, shifts) ==
    \/ \E p \in points, k \in shifts : PointerDown(p, k)
    \/ \E p \in points : PointerMove(p)
    \/ PointerUp

\* The keyboard and toolbar commands that need no argument.
Commands ==
    \/ DeleteSelected
    \/ DuplicateSelected
    \/ SelectAll
    \/ Undo
    \/ Redo
    \/ ClearAll

Box(id, type, x, y, w, h) ==
    create(id, type, [x |-> I(x), y |-> I(y), width |-> I(w), height |-> I(h),
                      strokeWidth |-> strokeWidth])

RectA == Box(101, "rectangle", 0, 0, 100, 100)
RectB == Box(102, "rectangle", 300, 0, 100, 100)
DocAB == <<RectA, RectB>>

\* An arrow from A's right edge to B's left edge, bound to both.
ArrowAB ==
    create(103, "arrow",
           [points |-> <<IPt(100, 50), IPt(300, 50)>>, strokeWidth |-> strokeWidth,
            startBinding |-> <<[shapeId |-> 101, angle |-> Pt(I(1), I(0))]>>,
            endBinding |-> <<[shapeId |-> 102, angle |-> Pt(I(-1), I(0))]>>])
DocBound == <<RectA, RectB, ArrowAB>>

-----------------------------------------------------------------------------
(* The editor: every event, on documents of rectangles and arrows *)

EditorSteps == 5
EditorDocs == {<<>>, DocAB, DocBound}
EditorTools == {"select", "arrow", "rectangle"}

\* A point in A next to its right edge, a point in B next to its left edge,
\* A's lower right corner, and a point on the empty canvas.
EditorPoints == {IPt(95, 50), IPt(305, 60), IPt(100, 100), IPt(200, 170)}

Init == \E saved \in EditorDocs : Boot(saved, EditorSteps)

Next ==
    \/ \E t \in EditorTools : SetTool(t)
    \/ Pointer(EditorPoints, BOOLEAN)
    \/ Commands
    \/ Import(DocAB)

Spec == Init /\ [][Next]_vars

-----------------------------------------------------------------------------
(* The scenario: the arrow tool and the select tool on A and B *)

ScenarioPoints == {IPt(95, 50), IPt(305, 50), IPt(50, 50), IPt(50, 250)}
ScenarioSteps == 7

ScenarioInit == Boot(DocAB, ScenarioSteps)
ScenarioNext ==
    \/ \E t \in {"select", "arrow"} : SetTool(t)
    \/ Pointer(ScenarioPoints, {FALSE})
SpecScenario == ScenarioInit /\ [][ScenarioNext]_vars

-----------------------------------------------------------------------------
(* The end-to-end scenario *)

Last(list) == list[Len(list)]

\* The arrow of the scenario: from A's right edge to B's left edge, bound to both.
IsArrowAB(a, start) ==
    /\ a.type = "arrow"
    /\ a.points = <<start, IPt(300, 50)>>
    /\ a.startBinding # <<>> /\ a.startBinding[1].shapeId = RectA.id
    /\ a.endBinding # <<>> /\ a.endBinding[1].shapeId = RectB.id

\* C1: with the rectangles A = (0,0,100,100) and B = (300,0,100,100) being the
\* list, the arrow tool's pointer-down at (95,50), pointer-move to (305,50) and
\* pointer-up commit an arrow bound to A and to B with the endpoints (100,50)
\* and (300,50); dragging A from there by (0,200), which moves A to (0,200) and
\* calls updateBindings for A, puts the arrow's start point at (100,250).
C1_EndToEnd ==
    (/\ ~ isDragging
     /\ currentTool = "arrow"
     /\ shapes = DocAB)
    => LET s1 == onPointerDown(St, IPt(95, 50), FALSE)
           s2 == onPointerMove(s1, IPt(305, 50))
           s3 == onPointerUp(s2)
           s4 == onPointerDown(s3, IPt(50, 50), FALSE)
           s5 == onPointerMove(s4, IPt(50, 250))
           movedA == [RectA EXCEPT !.y = I(200)]
       IN  /\ Len(s3.shapes) = Len(shapes) + 1
           /\ IsArrowAB(Last(s3.shapes), IPt(100, 50))
           /\ s4.dragType = "move" /\ s4.selectedIds = <<RectA.id>>
           /\ movedA \in Range(s5.shapes)
           /\ IsArrowAB(Last(s5.shapes), IPt(100, 250))

\* The editor has gone through the scenario: the arrow is committed, and A is
\* being dragged and is at (0,200).
C1_Witness ==
    /\ dragType = "move"
    /\ Len(shapes) = 3
    /\ shapes[1] = [RectA EXCEPT !.y = I(200)]
    /\ shapes[2] = RectB
    /\ IsArrowAB(shapes[3], IPt(100, 250))

-----------------------------------------------------------------------------
(* The invariants of the shape list and the selection *)

Bindings(shape) == shape.startBinding \o shape.endBinding

\* C2: in every reachable state, every binding of a shape in the list names a
\* shape that is in the list and is not a line or an arrow.
C2_BindingsNameContainers ==
    \A i \in 1..Len(shapes) :
        \A k \in 1..Len(Bindings(shapes[i])) :
            \E j \in 1..Len(shapes) :
                /\ shapes[j].id = Bindings(shapes[i])[k].shapeId
                /\ ~ IsConnector(shapes[j])

\* C4: in every reachable state the selected ids are ids of shapes in the list.
C4_SelectionInList == Range(selectedIds) \subseteq Ids(shapes)

-----------------------------------------------------------------------------
(* Deletion *)

Survivors == SelectSeq(shapes, LAMBDA sh : sh.id \notin Range(selectedIds))

\* The binding as deletion leaves it: absent if it named a deleted shape.
AfterDeletion(binding) ==
    IF binding # <<>> /\ binding[1].shapeId \in Range(selectedIds) THEN <<>> ELSE binding

\* C3: a deleteSelected with a selection removes exactly the selected shapes;
\* in each remaining shape a binding that named a deleted shape is absent, and
\* every other binding and every other field is as it was.
C3_DeletionRepair ==
    [][(DeleteSelected /\ selectedIds # <<>>)
       => /\ Len(shapes') = Len(Survivors)
          /\ \A i \in 1..Len(Survivors) :
                shapes'[i] = [Survivors[i] EXCEPT
                                 !.startBinding = AfterDeletion(@),
                                 !.endBinding = AfterDeletion(@)]]_vars

\* A has been deleted from the document of A, B and the arrow bound to both:
\* the arrow has lost its start binding and kept its end binding.
C3_Witness ==
    /\ shapes = <<RectB, [ArrowAB EXCEPT !.startBinding = <<>>]>>
    /\ undoStack # <<>> /\ Last(undoStack) = DocBound
    /\ selectedIds = <<>>

-----------------------------------------------------------------------------
(* History *)

\* The states a mutating action leads to from the current state: a deletion, a
\* duplication, and a gesture (a draw with a drawing tool, a move or a resize
\* with the select tool) from one of the points to another.
AfterAction ==
    {deleteSelected(St), duplicateSelected(St)}
        \cup {onPointerUp(onPointerMove(onPointerDown(St, p, FALSE), q)) :
                 p \in EditorPoints, q \in EditorPoints}

\* C5: when a mutating action has changed the shape list, the snapshot on top
\* of the undo stack is the list as it was before the action, and one undo
\* restores that list.
C5_UndoTopIsPreAction ==
    ~ isDragging
    => \A after \in AfterAction :
          after.shapes # shapes
          => /\ after.undoStack # <<>>
             /\ Last(after.undoStack) = shapes
             /\ undo(after).shapes = shapes

\* C6: an undo or redo that History answers with a list leaves the shape list
\* as resolveAllBindings makes the restored list.
C6_ResolveAfterRestore ==
    [][/\ (Undo /\ undoStack # <<>>) => shapes' = resolveAllBindings(Last(undoStack))
       /\ (Redo /\ redoStack # <<>>) => shapes' = resolveAllBindings(Last(redoStack))]_vars

-----------------------------------------------------------------------------
(* The geometry of the bindings on its own: Connectors and Shapes applied to a
   document of containers.  lab holds the record of the last application:
   what was applied (op), to the shape with which id or with which excluded
   ids, with which argument (at), on which list (before), and what it returned
   (found for findNearestBoundaryPoint, point for getBoundaryPointFromAngle). *)

GeomSteps == 2

GRect    == Box(201, "rectangle", 0, 0, 40, 20)
GDiamond == Box(202, "diamond", 100, 0, 40, 20)
GEllipse == Box(203, "ellipse", 0, 0, 32, 18)
GeomDocs == {<<GRect, GDiamond>>, <<GEllipse>>}

GeomPoints ==
    {IPt(55, 10), IPt(70, 10), IPt(85, 10), IPt(52, 26),
     IPt(31, 29), IPt(46, 49), IPt(40, 9)}
GeomExcluded == {{}, {GRect.id}}
GeomMoves == {IPt(10, 0), IPt(-5, 15)}
GeomHandles == {"se", "nw"}
GeomAngles == {Atan2(I(0), I(1)), Atan2(I(1), I(0)), Atan2(I(4), I(3)),
               Atan2(I(4), I(-3)), Atan2(I(-1), I(2)), Atan2(I(-1), I(-1))}
GeomZooms == {Rat(1, 2), I(2)}

\* Math.cos and Math.sin of the direction of (dx, dy) are rational numbers.
IsSquare(n) == ISqrt(n) * ISqrt(n) = n

HasNorm(dx, dy) ==
    IF RIsZero(dx) /\ RIsZero(dy) THEN TRUE
    ELSE LET sq == RAdd(RSq(Atan2(dy, dx).x), RSq(Atan2(dy, dx).y))
         IN  IsSquare(sq.n) /\ IsSquare(sq.d)

\* The ellipses are cast only at angles whose cosine and sine are rational.
CastableAt(shape, x, y) ==
    shape.type \in EllipseTypes
    => HasNorm(RSub(x, CenterX(getBounds(shape))), RSub(y, CenterY(getBounds(shape))))

Castable(list, x, y) == \A i \in 1..Len(list) : CastableAt(list[i], x, y)

CastableFound(found) ==
    IF found = <<>> THEN TRUE ELSE HasNorm(found[1].angle.x, found[1].angle.y)

Entry(op, id, excludeIds, at, before, found, point) ==
    [op |-> op, id |-> id, excludeIds |-> excludeIds, at |-> at, before |-> before,
     found |-> found, point |-> point]

GeomFrame ==
    UNCHANGED <<selectedIds, currentTool, isDragging, dragType, dragHandle,
                dragStartWorld, dragShape, dragShapeLive, dragOrigShapes,
                selectionRect, drawingShape, hoverSnap, undoStack, redoStack>>

Applied(list, counter, entry) ==
    /\ steps > 0
    /\ steps' = steps - 1
    /\ shapes' = list
    /\ idCounter' = counter
    /\ lab' = <<entry>>
    /\ UNCHANGED scale
    /\ GeomFrame

\* The start of a connector at the point: findNearestBoundaryPoint, and the
\* connector bound where it found a boundary point.
Snapped(q, excludeIds, found) ==
    /\ CastableFound(found)
    /\ Applied(IF found = <<>> THEN shapes
               ELSE Append(shapes, NewConnector(idCounter + 1, "arrow", q, found)),
               IF found = <<>> THEN idCounter ELSE idCounter + 1,
               Entry("snap", 0, excludeIds, q, shapes, found, <<>>))

Snap(q, excludeIds) ==
    /\ Castable(shapes, q.x, q.y)
    /\ \E found \in {findNearestBoundaryPoint(shapes, q.x, q.y, excludeIds)} :
          Snapped(q, excludeIds, found)

\* Shapes.move of a container and Connectors.updateBindings for it.
Translate(i, d) ==
    /\ ~ IsConnector(shapes[i])
    /\ Applied(updateBindings([shapes EXCEPT ![i] = move(@, d.x, d.y)], shapes[i].id),
               idCounter, Entry("translate", shapes[i].id, {}, d, shapes, <<>>, <<>>))

\* Shapes.resize of a container and Connectors.updateBindings for it.
Resize(i, handle, d) ==
    /\ ~ IsConnector(shapes[i])
    /\ Applied(updateBindings([shapes EXCEPT ![i] = resize(@, handle, d.x, d.y)],
                              shapes[i].id),
               idCounter, Entry("resize", shapes[i].id, {}, d, shapes, <<>>, <<>>))

\* Shapes.getBoundaryPointFromAngle of a container.
Angle(i, angle) ==
    /\ ~ IsConnector(shapes[i])
    /\ shapes[i].type \in EllipseTypes => HasNorm(angle.x, angle.y)
    /\ Applied(shapes, idCounter,
               Entry("angle", shapes[i].id, {}, angle, shapes, <<>>,
                     <<getBoundaryPointFromAngle(shapes[i], angle)>>))

MIN_SCALE == Rat(1, 10)
MAX_SCALE == I(5)

clamp(val, min, max) == RMax(min, RMin(max, val))

zoomAt(factor) == clamp(RMul(scale, factor), MIN_SCALE, MAX_SCALE)

Zoom(factor) ==
    /\ steps > 0
    /\ steps' = steps - 1
    /\ scale' = zoomAt(factor)
    /\ UNCHANGED <<shapes, idCounter, lab>>
    /\ GeomFrame

GeomInit == \E saved \in GeomDocs : Boot(saved, GeomSteps)

GeomNext ==
    \/ \E q \in GeomPoints, excludeIds \in GeomExcluded : Snap(q, excludeIds)
    \/ \E i \in 1..Len(shapes), d \in GeomMoves : Translate(i, d)
    \/ \E i \in 1..Len(shapes), handle \in GeomHandles, d \in GeomMoves : Resize(i, handle, d)
    \/ \E i \in 1..Len(shapes), angle \in GeomAngles : Angle(i, angle)
    \/ \E factor \in GeomZooms : Zoom(factor)

SpecGeom == GeomInit /\ [][GeomNext]_vars

-----------------------------------------------------------------------------
(* The geometry of the bindings: the properties *)

\* The ends of the connectors of the list that are bound to the shape.
BoundEnds(list, id) ==
    {be \in (1..Len(list)) \X {"start", "end"} :
        /\ IsConnector(list[be[1]])
        /\ BindingAt(list[be[1]], be[2]) # <<>>
        /\ BindingAt(list[be[1]], be[2])[1].shapeId = id}

BoundPoint(list, be) == list[be[1]].points[PointIndex(list[be[1]], be[2])]
BoundAngle(list, be) == BindingAt(list[be[1]], be[2])[1].angle

\* p is on the ray that leaves the centre of b in the direction angle.
OnRay(b, angle, p) ==
    /\ RSub(RMul(RSub(p.x, CenterX(b)), angle.y),
            RMul(RSub(p.y, CenterY(b)), angle.x)) = I(0)
    /\ RLt(I(0), RAdd(RMul(RSub(p.x, CenterX(b)), angle.x),
                      RMul(RSub(p.y, CenterY(b)), angle.y)))

\* p is on the silhouette of a shape of that type with bounds b.
OnSilhouette(type, b, p) ==
    LET dx == RAbs(RSub(p.x, CenterX(b)))
        dy == RAbs(RSub(p.y, CenterY(b)))
        halfW == RHalf(b.w)
        halfH == RHalf(b.h)
    IN  IF type \in EllipseTypes
            THEN RAdd(RSq(RDiv(dx, halfW)), RSq(RDiv(dy, halfH))) = I(1)
        ELSE IF type \in DiamondTypes
            THEN RAdd(RDiv(dx, halfW), RDiv(dy, halfH)) = I(1)
        ELSE /\ RLe(dx, halfW) /\ RLe(dy, halfH)
             /\ (dx = halfW \/ dy = halfH)

\* C7: when a container is translated by (dx, dy) and updateBindings is called
\* for it, every connector endpoint bound to it by snapping moves by exactly
\* (dx, dy), whatever the family of the container.
C7_TranslationInvariance ==
    (lab # <<>> /\ lab[1].op = "translate")
    => \A be \in BoundEnds(lab[1].before, lab[1].id) :
          BoundPoint(shapes, be)
              = Pt(RAdd(BoundPoint(lab[1].before, be).x, lab[1].at.x),
                   RAdd(BoundPoint(lab[1].before, be).y, lab[1].at.y))

\* C8: when a container is resized and updateBindings is called for it, every
\* connector endpoint bound to it is on the new silhouette of the container and
\* on the ray that leaves its new centre in the direction of the stored angle,
\* whatever the family of the container.
C8_ResizeInvariance ==
    (lab # <<>> /\ lab[1].op = "resize")
    => \A be \in BoundEnds(shapes, lab[1].id) :
          /\ OnSilhouette(find(shapes, lab[1].id)[1].type,
                          getBounds(find(shapes, lab[1].id)[1]), BoundPoint(shapes, be))
          /\ OnRay(getBounds(find(shapes, lab[1].id)[1]), BoundAngle(shapes, be),
                   BoundPoint(shapes, be))

\* C9: for a container of any family and any angle, the point that
\* getBoundaryPointFromAngle returns is on the ray that leaves the centre of
\* the container in the direction of the angle.
C9_AngleRoundTrip ==
    (lab # <<>> /\ lab[1].op = "angle")
    => OnRay(getBounds(find(lab[1].before, lab[1].id)[1]), lab[1].at, lab[1].point[1])

\* The shapes findNearestBoundaryPoint may answer with.
Eligible(list, excludeIds) ==
    {i \in 1..Len(list) :
        /\ list[i].id \notin excludeIds
        /\ list[i].type \notin {"line", "arrow", "freehand", "text"}}

\* The boundary point of the shape toward q is at a distance from q less than
\* (strict) or at most (~ strict) the radius.
Within(shape, q, radius, strict) ==
    IF strict
    THEN distanceLt(q.x, q.y, getBoundaryPoint(shape, q.x, q.y).x,
                    getBoundaryPoint(shape, q.x, q.y).y, radius)
    ELSE distanceLe(q.x, q.y, getBoundaryPoint(shape, q.x, q.y).x,
                    getBoundaryPoint(shape, q.x, q.y).y, radius)

\* C10: at every zoom scale, findNearestBoundaryPoint answers with a match
\* when the boundary point of some eligible shape is less than 20 world units
\* from the query point, and with null when the boundary point of every
\* eligible shape is more than 20 world units from it.
C10_SnapRadius ==
    (lab # <<>> /\ lab[1].op = "snap")
    => /\ (\E i \in Eligible(lab[1].before, lab[1].excludeIds) :
              Within(lab[1].before[i], lab[1].at, I(20), TRUE))
          => lab[1].found # <<>>
       /\ (\A i \in Eligible(lab[1].before, lab[1].excludeIds) :
              ~ Within(lab[1].before[i], lab[1].at, I(20), FALSE))
          => lab[1].found = <<>>

\* At the zoom scale 2 a query point has been matched with a boundary point
\* that is 10 world units (20 pixels of the screen) or more from it.
C10_Witness ==
    /\ scale = I(2)
    /\ lab # <<>> /\ lab[1].op = "snap" /\ lab[1].found # <<>>
    /\ ~ distanceLt(lab[1].at.x, lab[1].at.y, lab[1].found[1].x, lab[1].found[1].y, I(10))

-----------------------------------------------------------------------------
(* resolveAllBindings applied twice *)

\* A saved file in which a connector is bound to a connector: the arrow 104
\* ends on the arrow 105, which starts on A and is listed after it.  The start
\* of 105 is not where its binding puts it.
ArrowOnA ==
    create(105, "arrow",
           [points |-> <<IPt(150, 50), IPt(200, 90)>>, strokeWidth |-> strokeWidth,
            startBinding |-> <<[shapeId |-> 101, angle |-> Pt(I(1), I(0))]>>])

ArrowOnArrow ==
    create(104, "arrow",
           [points |-> <<IPt(175, 150), IPt(175, 95)>>, strokeWidth |-> strokeWidth,
            endBinding |-> <<[shapeId |-> 105, angle |-> Pt(I(0), I(1))]>>])

ChainedFile == <<RectA, ArrowOnArrow, ArrowOnA>>

-----------------------------------------------------------------------------
(* The draw gesture: the drawing tools used on a few points that are close to
   one another and far from the shapes of the document. *)

DrawSteps == 5
DrawTools == {"rectangle", "arrow", "freehand"}
DrawPoints == {IPt(150, 150), IPt(153, 154), IPt(154, 156), IPt(180, 170)}

DrawInit == \E saved \in {<<>>, DocAB} : Boot(saved, DrawSteps)

DrawNext ==
    \/ \E t \in DrawTools : SetTool(t)
    \/ Pointer(DrawPoints, {FALSE})

SpecDraw == DrawInit /\ [][DrawNext]_vars

\* The shape in progress is below the threshold of its family.
BelowThreshold(d) ==
    IF d.type = "freehand" THEN Len(d.points) < 3
    ELSE IF d.type \in {"line", "arrow"} THEN
        RLt(RAdd(RSq(RSub(d.points[2].x, d.points[1].x)),
                 RSq(RSub(d.points[2].y, d.points[1].y))), I(25))
    ELSE RLt(d.width, I(5)) /\ RLt(d.height, I(5))

\* If the shape in progress in the state s is below the threshold, then the
\* pointer-up in s leads to the shape list and the undo stack of before.
Discards(before, s) ==
    BelowThreshold(s.drawingShape[1])
    => /\ onPointerUp(s).shapes = before.shapes
       /\ onPointerUp(s).undoStack = before.undoStack

\* C12: a draw gesture whose shape in progress at the pointer-up is below the
\* threshold of its family leaves the shape list and the undo stack as they
\* were before the pointer-down: for the gestures of a pointer-down, at most
\* one pointer-move and the pointer-up from a state with a drawing tool, and
\* for the pointer-up in every state reached in the middle of a draw.
C12_TinyDrawDiscarded ==
    /\ (~ isDragging /\ currentTool # "select")
       => \A p \in DrawPoints :
             /\ Discards(St, onPointerDown(St, p, FALSE))
             /\ \A q \in DrawPoints :
                   Discards(St, onPointerMove(onPointerDown(St, p, FALSE), q))
    /\ (isDragging /\ dragType = "draw") => Discards(St, St)

\* A draw has been started on the empty canvas and discarded: an id has been
\* spent, and the list and both stacks are empty.
C12_Witness ==
    /\ ~ isDragging /\ currentTool = "select"
    /\ idCounter = 1
    /\ shapes = <<>> /\ undoStack = <<>> /\ redoStack = <<>>

-----------------------------------------------------------------------------
(* The rubber-band selection *)

\* The coordinates of the corners of the shape's box along one axis.
Xs(shape) ==
    IF shape.points # <<>> THEN {shape.points[i].x : i \in 1..Len(shape.points)}
    ELSE {shape.x, RAdd(shape.x, shape.width)}

Ys(shape) ==
    IF shape.points # <<>> THEN {shape.points[i].y : i \in 1..Len(shape.points)}
    ELSE {shape.y, RAdd(shape.y, shape.height)}

\* The intervals spanned by two sets of coordinates are not separated: neither
\* lies wholly below the other.
Meet(as, bs) ==
    /\ \E a \in as, b \in bs : RLe(a, b)
    /\ \E a \in as, b \in bs : RLe(b, a)

\* The ids of the shapes whose box is not separated from the rectangle of the
\* corners p and q along either axis.
Overlapping(list, p, q) ==
    {list[i].id : i \in {j \in 1..Len(list) :
                            /\ Meet({p.x, q.x}, Xs(list[j]))
                            /\ Meet({p.y, q.y}, Ys(list[j]))}}

\* The select tool alone: pointer events over the documents of A and B, with
\* and without the shift key.
SelectSteps == 5

SelectInit == \E saved \in {DocAB, DocBound} : Boot(saved, SelectSteps)

SelectNext == Pointer(EditorPoints, BOOLEAN)

SpecSelect == SelectInit /\ [][SelectNext]_vars

\* C13: with the select tool and no shift key, a pointer-down that starts a
\* rubber band at p, followed by a pointer-move to q (or by none, q being p)
\* and the pointer-up, leaves selected exactly the shapes whose box overlaps
\* the rectangle of the corners p and q.
C13_RubberBandSelects ==
    (~ isDragging /\ currentTool = "select")
    => \A p \in EditorPoints :
          onPointerDown(St, p, FALSE).dragType = "select-rect"
          => /\ Range(onPointerUp(onPointerDown(St, p, FALSE)).selectedIds)
                    = Overlapping(shapes, p, p)
             /\ \A q \in EditorPoints :
                   Range(onPointerUp(onPointerMove(onPointerDown(St, p, FALSE), q))
                             .selectedIds)
                       = Overlapping(shapes, p, q)

\* A rubber band from (200,170) to (305,60) over the document of A and B has
\* been released: B is selected, A is not, and nothing was pushed.
C13_Witness ==
    /\ ~ isDragging /\ currentTool = "select"
    /\ shapes = DocAB /\ undoStack = <<DocAB>>
    /\ dragStartWorld = IPt(200, 170)
    /\ selectedIds = <<RectB.id>>

-----------------------------------------------------------------------------
(* The least extent of containers *)

\* C14: every container of the shape list is at least 10 wide and at least
\* 10 high.
C14_ContainersAtLeastTen ==
    \A i \in 1..Len(shapes) :
        shapes[i].type \in CONTAINER_TYPES
        => /\ RLe(I(10), shapes[i].width)
           /\ RLe(I(10), shapes[i].height)

-----------------------------------------------------------------------------
(* The history at its capacity.  The runs start after a session of imports
   followed by undos, long enough to fill either stack, and go on with a few
   more imports, undos and redos. *)

HistorySteps == 4

\* The snapshots of the undo stack after the imports of the session before
\* the run, and those of the redo stack after its undos.
HistoryFills == {0, MAX_STACK - 1, MAX_STACK}
HistoryUndos == {0, 1, MAX_STACK - 1, MAX_STACK}

HistoryDocs == {<<RectA>>, DocAB}

\* The editor at start-up with nothing autosaved.
Booted ==
    [shapes |-> <<>>, selectedIds |-> <<>>, currentTool |-> "select",
     isDragging |-> FALSE, dragType |-> "none", dragHandle |-> "none",
     dragStartWorld |-> <<>>, dragShape |-> <<>>, dragShapeLive |-> FALSE,
     dragOrigShapes |-> <<>>, selectionRect |-> <<>>, drawingShape |-> <<>>,
     hoverSnap |-> <<>>, idCounter |-> 0, undoStack |-> <<>>, redoStack |-> <<>>]

\* The editor after as many imports of the file of A alone as bring the undo
\* stack to n snapshots.
RECURSIVE Filled(_, _)
Filled(s, n) ==
    IF Len(s.undoStack) >= n THEN s ELSE Filled(importShapes(s, <<RectA>>), n)

\* The editor after as many undos as bring the redo stack to m snapshots, or
\* as there are snapshots to undo.
RECURSIVE Rewound(_, _)
Rewound(s, m) ==
    IF Len(s.redoStack) >= m \/ Len(s.undoStack) = 0 THEN s ELSE Rewound(undo(s), m)

Starts(s, budget) ==
    /\ shapes = s.shapes
    /\ selectedIds = s.selectedIds
    /\ currentTool = s.currentTool
    /\ isDragging = s.isDragging
    /\ dragType = s.dragType
    /\ dragHandle = s.dragHandle
    /\ dragStartWorld = s.dragStartWorld
    /\ dragShape = s.dragShape
    /\ dragShapeLive = s.dragShapeLive
    /\ dragOrigShapes = s.dragOrigShapes
    /\ selectionRect = s.selectionRect
    /\ drawingShape = s.drawingShape
    /\ hoverSnap = s.hoverSnap
    /\ idCounter = s.idCounter
    /\ undoStack = s.undoStack
    /\ redoStack = s.redoStack
    /\ scale = I(1)
    /\ steps = budget
    /\ lab = <<>>

HistoryInit ==
    \E n \in HistoryFills, m \in HistoryUndos :
        Starts(Rewound(Filled(Booted, n), m), HistorySteps)

HistoryNext ==
    \/ \E loaded \in HistoryDocs : Import(loaded)
    \/ Undo
    \/ Redo

SpecHistory == HistoryInit /\ [][HistoryNext]_vars

\* C15: neither stack ever holds more than MAX_STACK (100) snapshots, and a
\* push on a full undo stack drops the oldest snapshot: the stack becomes the
\* snapshots after the first followed by the snapshot pushed.
C15_HistoryBounded ==
    /\ Len(undoStack) <= MAX_STACK
    /\ Len(redoStack) <= MAX_STACK
    /\ Len(undoStack) = MAX_STACK
       => /\ push(St).undoStack = Append(Tail(undoStack), shapes)
          /\ \A loaded \in HistoryDocs :
                importShapes(St, loaded).undoStack = Append(Tail(undoStack), shapes)

\* An import on a full undo stack has dropped the empty document the session
\* started with.
C15_Witness ==
    /\ steps < HistorySteps
    /\ Len(undoStack) = MAX_STACK
    /\ redoStack = <<>>
    /\ undoStack[1] = <<RectA>>

-----------------------------------------------------------------------------
(* Undo and redo with nothing to restore *)

\* C16: an undo with an empty undo stack and a redo with an empty redo stack
\* leave the editor as it was: the shape list, the selection and both stacks
\* (and everything else) are unchanged.
C16_EmptyHistoryNoChange ==
    /\ undoStack = <<>> => undo(St) = St
    /\ redoStack = <<>> => redo(St) = St

\* The first snapshot has been undone and both shapes selected since: an undo
\* now finds the undo stack empty and a selection it could clear.
C16_Witness ==
    /\ undoStack = <<>>
    /\ redoStack = <<DocAB>>
    /\ shapes = DocAB
    /\ selectedIds = <<RectA.id, RectB.id>>
    /\ steps < EditorSteps - 2

-----------------------------------------------------------------------------
(* History pushes and transactions *)

\* The snapshots the undo stack has gained from the state before to the state
\* after (the stacks of the runs stay below MAX_STACK, so nothing is dropped).
Pushes(before, after) == Len(after.undoStack) - Len(before.undoStack)

\* The whole gesture from the idle state s: pointer-down at p, pointer-move to
\* q, pointer-up.
Drag(s, p, q) == onPointerUp(onPointerMove(onPointerDown(s, p, FALSE), q))

\* The click at p: pointer-down and pointer-up.
Click(s, p) == onPointerUp(onPointerDown(s, p, FALSE))

\* C17: pushes correspond one-to-one to transactions.  From an idle state with
\* the select tool: a click on a shape and a rubber band push nothing; a drag
\* of a shape or of a handle that changes the shape list pushes exactly once;
\* a committed draw pushes exactly once; delete and duplicate on a non-empty
\* selection push exactly once.
C17_OnePushPerTransaction ==
    (~ isDragging /\ currentTool = "select" /\ Len(undoStack) < MAX_STACK - 2)
    => /\ \A p \in EditorPoints :
            /\ Pushes(St, Click(St, p)) = 0
            /\ \A q \in EditorPoints :
                  Pushes(St, Drag(St, p, q))
                      = IF Drag(St, p, q).shapes # shapes THEN 1 ELSE 0
       /\ \A p, q \in DrawPoints :
             Pushes(St, Drag(setTool(St, "rectangle"), p, q))
                 = IF Drag(setTool(St, "rectangle"), p, q).shapes # shapes THEN 1 ELSE 0
       /\ selectedIds # <<>>
          => /\ Pushes(St, deleteSelected(St)) = 1
             /\ Pushes(St, duplicateSelected(St)) = 1

-----------------------------------------------------------------------------
(* Clicks on a shape body *)

\* The shape whose body a pointer-down at p hits, <<>> when the point is on a
\* handle of a selected shape or on no shape.
BodyHit(p) ==
    IF HandleHit(selectedIds, shapes, p, RDiv(I(8), scale), 1) # <<>> THEN <<>>
    ELSE TopHit(shapes, Len(shapes), p, RDiv(I(6), scale))

\* C18: with the select tool, a pointer-down with shift held on a shape body
\* toggles the shape's membership in the selection and starts no drag: the
\* drag substate is none and a following pointer-move moves no shape.
C18_ShiftClickTogglesOnly ==
    (~ isDragging /\ currentTool = "select")
    => \A p \in EditorPoints :
          BodyHit(p) # <<>>
          => /\ Range(onPointerDown(St, p, TRUE).selectedIds)
                    = (Range(selectedIds) \ {BodyHit(p)[1].id})
                        \cup ({BodyHit(p)[1].id} \ Range(selectedIds))
             /\ ~ onPointerDown(St, p, TRUE).isDragging
             /\ onPointerDown(St, p, TRUE).dragType = "none"
             /\ \A q \in EditorPoints :
                   onPointerMove(onPointerDown(St, p, TRUE), q).shapes = shapes


\* C19: with the select tool, a pointer-down without shift that hits a shape
\* body makes the selection exactly that shape and starts a move drag,
\* whatever the selection was before.
C19_PlainClickSelectsOnlyHit ==
    (~ isDragging /\ currentTool = "select")
    => \A p \in EditorPoints :
          BodyHit(p) # <<>>
          => /\ onPointerDown(St, p, FALSE).selectedIds = <<BodyHit(p)[1].id>>
             /\ onPointerDown(St, p, FALSE).isDragging
             /\ onPointerDown(St, p, FALSE).dragType = "move"

-----------------------------------------------------------------------------
(* The rebind at the end of a move *)

\* The shape has a binding to one of the ids.
BoundInto(shape, ids) ==
    \/ shape.startBinding # <<>> /\ shape.startBinding[1].shapeId \in ids
    \/ shape.endBinding # <<>> /\ shape.endBinding[1].shapeId \in ids

\* C20: when a move drag ends, no selected connector is left bound to a shape
\* of the moved selection, and no connector is bound to itself.
C20_MoveRebindExcludesSelection ==
    /\ \A i \in 1..Len(shapes) : ~ BoundInto(shapes[i], {shapes[i].id})
    /\ (isDragging /\ dragType = "move")
       => \A i \in 1..Len(onPointerUp(St).shapes) :
             (/\ onPointerUp(St).shapes[i].id \in Range(selectedIds)
              /\ IsConnector(onPointerUp(St).shapes[i]))
             => ~ BoundInto(onPointerUp(St).shapes[i], Range(selectedIds))

-----------------------------------------------------------------------------
(* The rebind of the moved connectors *)

\* The selected connector at index i, as the pointer-up of the move drag finds
\* it, has the outcome the snap result asks for at the end: snapped and bound
\* to the result, or unbound and where it was.
Rebound(after, i, end, snap) ==
    IF snap # <<>>
    THEN /\ after[i].points[PointIndex(after[i], end)] = Pt(snap[1].x, snap[1].y)
         /\ BindingAt(after[i], end)
                = <<[shapeId |-> snap[1].shapeId, angle |-> snap[1].angle]>>
    ELSE /\ after[i].points[PointIndex(after[i], end)]
                = shapes[i].points[PointIndex(shapes[i], end)]
         /\ BindingAt(after[i], end) = <<>>

\* The state with the bindings of every connector forgotten.
Forgetful(s) == [s EXCEPT !.shapes = [i \in 1..Len(s.shapes) |-> Detached(s.shapes[i])]]

\* C21: at the pointer-up that ends a move drag, each endpoint of each selected
\* line or arrow of two points or more is snapped and bound to the result of
\* findNearestBoundaryPoint at its final position (the connector excluded), or
\* unbound when there is none; the connectors come out the same whatever
\* bindings they had before.
C21_MoveRebindByPosition ==
    (isDragging /\ dragType = "move")
    => /\ \A i \in 1..Len(shapes) :
            (Has(selectedIds, shapes[i].id) /\ Bindable(shapes[i]))
            => \A e \in 1..2 :
                  Rebound(onPointerUp(St).shapes, i, Ends[e],
                          findNearestBoundaryPoint(
                              shapes, shapes[i].points[PointIndex(shapes[i], Ends[e])].x,
                              shapes[i].points[PointIndex(shapes[i], Ends[e])].y,
                              {shapes[i].id}))
       /\ \A i \in 1..Len(shapes) :
            (Has(selectedIds, shapes[i].id) /\ Bindable(shapes[i]))
            => onPointerUp(Forgetful(St)).shapes[i] = onPointerUp(St).shapes[i]

\* The arrow of the bound document has been dragged by (5, 50) and released:
\* its start, released at (105,100), is bound again and has moved to the
\* boundary of A.
C21_Witness ==
    /\ ~ isDragging
    /\ Len(shapes) = 3
    /\ selectedIds = <<ArrowAB.id>>
    /\ dragStartWorld = IPt(95, 50)
    /\ shapes[3].startBinding # <<>>
    /\ shapes[3].startBinding[1].shapeId = RectA.id
    /\ shapes[3].points[1] # ArrowAB.points[1]

-----------------------------------------------------------------------------
(* The move drag *)

\* The coordinates of a shape: its points, or its origin.
Coordinates(shape) ==
    IF shape.points # <<>> THEN shape.points ELSE <<Pt(shape.x, shape.y)>>

\* The coordinates displaced by the vector from the point from to the point to.
Displaced(coords, from, to) ==
    [k \in 1..Len(coords) |->
        Pt(RAdd(coords[k].x, RSub(to.x, from.x)), RAdd(coords[k].y, RSub(to.y, from.y)))]

\* In the state after, every shape selected in the state down (the state after
\* the pointer-down at p) is where it was at the pointer-down, displaced from p
\* to q.
Carried(down, after, p, q) ==
    /\ Len(after.shapes) = Len(down.shapes)
    /\ \A i \in 1..Len(down.shapes) :
          Has(down.selectedIds, down.shapes[i].id)
          => /\ after.shapes[i].id = down.shapes[i].id
             /\ Coordinates(after.shapes[i])
                    = Displaced(Coordinates(down.shapes[i]), p, q)

\* C22: during a move drag started at p, after one pointer-move, or after a
\* second one back to p or on to (100,100), every shape selected at the start
\* of the drag is at its coordinates of the start displaced by the vector from
\* p to the pointer's position; back at p, the coordinates are those of the
\* start.
C22_MoveFromSnapshot ==
    (~ isDragging /\ currentTool = "select")
    => \A p \in EditorPoints :
          onPointerDown(St, p, FALSE).dragType = "move"
          => \A q \in EditorPoints :
                /\ Carried(onPointerDown(St, p, FALSE),
                           onPointerMove(onPointerDown(St, p, FALSE), q), p, q)
                /\ \A r \in {p, IPt(100, 100)} :
                      Carried(onPointerDown(St, p, FALSE),
                              onPointerMove(onPointerMove(onPointerDown(St, p, FALSE), q), r),
                              p, r)

\* A has been picked at (95,50) and, after a pointer-move elsewhere, carried to
\* (305,60): it is at (210,10).
C22_Witness ==
    /\ isDragging /\ dragType = "move"
    /\ steps <= SelectSteps - 3
    /\ dragStartWorld = IPt(95, 50)
    /\ selectedIds = <<RectA.id>>
    /\ shapes[1].id = RectA.id
    /\ shapes[1].x = I(210) /\ shapes[1].y = I(10)

-----------------------------------------------------------------------------
(* findNearestBoundaryPoint on its own, over lists that hold shapes of every
   kind: two rectangles at equal distances from the points between them, a
   diamond, and a text, a line and a freehand stroke nearer to those points
   than the rectangles are.  lab holds the record of the last query. *)

SnapSteps == 2

SLeft    == Box(301, "rectangle", 0, 0, 40, 20)
SRight   == Box(302, "rectangle", 60, 0, 40, 20)
SText    == Box(303, "text", 42, 6, 12, 8)
SLine    == create(304, "line", [points |-> <<IPt(45, 0), IPt(55, 20)>>,
                                 strokeWidth |-> strokeWidth])
SFree    == create(305, "freehand", [points |-> <<IPt(46, 4), IPt(50, 8), IPt(54, 16)>>,
                                     strokeWidth |-> strokeWidth])
SDiamond == Box(306, "diamond", 60, 0, 40, 20)

SnapDocs ==
    {<<SLeft, SRight>>, <<SRight, SLeft>>, <<SLeft, SDiamond>>,
     <<SText, SLine, SLeft, SRight>>, <<SFree, SLeft, SRight>>}

SnapPoints ==
    {IPt(50, 10), IPt(45, 10), IPt(55, 10), IPt(50, 16), IPt(52, 12),
     IPt(20, 35), IPt(50, 45)}

SnapExcluded == {{}, {SLeft.id}, {SRight.id}, {SLeft.id, SRight.id}}

\* findNearestBoundaryPoint applied to the list at the point.
Nearest(q, excludeIds) ==
    Applied(shapes, idCounter,
            Entry("snap", 0, excludeIds, q, shapes,
                  findNearestBoundaryPoint(shapes, q.x, q.y, excludeIds), <<>>))

SnapInit == \E saved \in SnapDocs : Boot(saved, SnapSteps)

SnapNext ==
    \/ \E q \in SnapPoints, excludeIds \in SnapExcluded : Nearest(q, excludeIds)
    \/ \E i \in 1..Len(shapes), d \in GeomMoves : Translate(i, d)

SpecSnap == SnapInit /\ [][SnapNext]_vars

\* C23: findNearestBoundaryPoint never answers with a shape whose id is
\* excluded, nor with a line, an arrow or a text.
C23_NeverExcludedNorConnector ==
    (lab # <<>> /\ lab[1].op = "snap" /\ lab[1].found # <<>>)
    => /\ lab[1].found[1].shapeId \notin lab[1].excludeIds
       /\ \A i \in 1..Len(lab[1].before) :
             lab[1].before[i].id = lab[1].found[1].shapeId
             => lab[1].before[i].type \notin {"line", "arrow", "text"}

\* The query at (50,10) on the list of the text, the line and the rectangles,
\* the left rectangle excluded, has answered with the right rectangle: the
\* text and the line are nearer, the left rectangle is as near.
C23_Witness ==
    /\ lab # <<>> /\ lab[1].op = "snap"
    /\ lab[1].before = <<SText, SLine, SLeft, SRight>>
    /\ lab[1].at = IPt(50, 10)
    /\ lab[1].excludeIds = {SLeft.id}
    /\ lab[1].found # <<>>
    /\ lab[1].found[1].shapeId = SRight.id


\* The distance from q to the boundary point of the shape toward q, compared
\* with the distance from q to the point f: negative, zero or positive as the
\* shape is nearer, as near or farther.
Against(shape, q, f) ==
    DistCmp(q.x, q.y, getBoundaryPoint(shape, q.x, q.y).x,
            getBoundaryPoint(shape, q.x, q.y).y, RSub(f.x, q.x), RSub(f.y, q.y))

\* The answer f to the query at q on the list is the boundary point of a shape
\* of the candidates (indexes of the list); no candidate is nearer and every
\* candidate before it in the list is farther.
NearestOf(list, candidates, q, f) ==
    \E j \in candidates :
        /\ list[j].id = f.shapeId
        /\ Pt(f.x, f.y) = getBoundaryPoint(list[j], q.x, q.y)
        /\ \A i \in candidates : Against(list[i], q, f) >= 0
        /\ \A i \in candidates : i < j => Against(list[i], q, f) > 0

\* The shapes the interface text makes eligible: every shape that is not
\* excluded and is neither a connector nor a text.
EligibleAsStated(list, excludeIds) ==
    {i \in 1..Len(list) :
        /\ list[i].id \notin excludeIds
        /\ list[i].type \notin {"line", "arrow", "text"}}

-----------------------------------------------------------------------------
(* resolveAllBindings on its own, over lists as a file can hold them: bindings
   to shapes that are there, to shapes that are not, to another arrow, and an
   arrow of a single point.  lab holds the list resolveAllBindings was applied
   to; shapes is the list it left. *)

ResolveSteps == 3

\* An arrow of one point, bound to a shape no list holds.
ShortArrow ==
    create(106, "arrow", [points |-> <<IPt(100, 50)>>, strokeWidth |-> strokeWidth,
                          startBinding |-> <<[shapeId |-> 999, angle |-> Pt(I(1), I(0))]>>])

ResolveFiles ==
    {DocBound, <<RectA, ArrowAB>>, <<ArrowAB, RectB>>, <<ArrowAB>>, ChainedFile,
     <<RectA, ShortArrow>>}

Without(list, i) == SubSeq(list, 1, i - 1) \o SubSeq(list, i + 1, Len(list))

\* resolveAllBindings applied to the list of a file.
Resolve(file) ==
    Applied(resolveAllBindings(file), idCounter,
            Entry("resolve", 0, {}, <<>>, file, <<>>, <<>>))

\* resolveAllBindings applied to the present list less one of its shapes.
ResolveWithout(i) == Resolve(Without(shapes, i))

ResolveInit == \E saved \in ResolveFiles : Boot(saved, ResolveSteps)

ResolveNext ==
    \/ \E file \in ResolveFiles : Resolve(file)
    \/ \E i \in 1..Len(shapes) : ResolveWithout(i)
    \/ \E i \in 1..Len(shapes), d \in GeomMoves : Translate(i, d)

SpecResolve == ResolveInit /\ [][ResolveNext]_vars

\* The binding of the shape at the end names a shape the list does not hold.
Dangling(list, shape, end) ==
    /\ BindingAt(shape, end) # <<>>
    /\ BindingAt(shape, end)[1].shapeId \notin Ids(list)

\* After resolveAllBindings the connector has come out of the list before as
\* the claim says: no binding of it names a shape absent from the list, and
\* an end whose binding named one has lost the binding and kept its point.
Cleared(before, after, i) ==
    \A e \in 1..2 :
        /\ ~ Dangling(after, after[i], Ends[e])
        /\ Dangling(before, before[i], Ends[e])
           => /\ BindingAt(after[i], Ends[e]) = <<>>
              /\ before[i].points # <<>>
                 => after[i].points[PointIndex(after[i], Ends[e])]
                        = before[i].points[PointIndex(before[i], Ends[e])]

-----------------------------------------------------------------------------
(* The commit of a drawn shape *)

\* The state after is the state before with the shape d committed: the list
\* before is on top of the undo stack, the list after is the list before
\* followed by d (with the end binding the commit may add), and d alone is
\* selected.
Committed(before, after, d) ==
    /\ after.undoStack = Append(before.undoStack, before.shapes)
    /\ Len(after.shapes) = Len(before.shapes) + 1
    /\ SubSeq(after.shapes, 1, Len(before.shapes)) = before.shapes
    /\ [after.shapes[Len(after.shapes)] EXCEPT !.endBinding = <<>>]
           = [d EXCEPT !.endBinding = <<>>]
    /\ after.selectedIds = <<d.id>>

\* C26: the pointer-up that ends a draw gesture with a shape at or above the
\* size threshold pushes the list as it was, appends the shape as the last
\* element and changes no other, and leaves the shape alone selected.
C26_DrawCommit ==
    (isDragging /\ dragType = "draw" /\ drawingShape # <<>>
        /\ Len(undoStack) < MAX_STACK)
    => (~ BelowThreshold(drawingShape[1])
        => Committed(St, onPointerUp(St), drawingShape[1]))

\* An arrow has been drawn over the document of A and B and committed.
C26_Witness ==
    /\ ~ isDragging
    /\ Len(shapes) = 3
    /\ SubSeq(shapes, 1, 2) = DocAB
    /\ shapes[3].type = "arrow"
    /\ undoStack = <<DocAB, DocAB>>
    /\ selectedIds = <<shapes[3].id>>

-----------------------------------------------------------------------------
(* The bound endpoints at rest *)

\* The end of the connector, if bound to a shape of the list, is at the point
\* of the shape's boundary at the binding's angle.
OnTarget(list, shape, end) ==
    (BindingAt(shape, end) # <<>> /\ find(list, BindingAt(shape, end)[1].shapeId) # <<>>)
    => shape.points[PointIndex(shape, end)]
           = getBoundaryPointFromAngle(find(list, BindingAt(shape, end)[1].shapeId)[1],
                                       BindingAt(shape, end)[1].angle)

\* C27: whenever no drag is in progress, each bound endpoint of each line or
\* arrow is at getBoundaryPointFromAngle of its target and its angle.
C27_BoundEndsOnTarget ==
    ~ isDragging
    => \A i \in 1..Len(shapes) :
          Bindable(shapes[i])
          => \A e \in 1..2 : OnTarget(shapes, shapes[i], Ends[e])

-----------------------------------------------------------------------------
(* Clicks on the empty canvas *)

\* The points of a click: the pointer positions of the editor and a point
\* inside the bounding box of a slanted connector, away from its segment.
MissPoints == EditorPoints \cup {IPt(210, 60)}

\* C28: with the select tool and no shift key, a pointer-down at a point that
\* hits no shape body and no resize handle, followed by a pointer-up with no
\* pointer-move in between, leaves the selection empty.
C28_MissClickSelectsNothing ==
    (~ isDragging /\ currentTool = "select")
    => \A p \in MissPoints :
          (/\ HandleHit(selectedIds, shapes, p, RDiv(I(8), scale), 1) = <<>>
           /\ BodyHit(p) = <<>>)
          => Click(St, p).selectedIds = <<>>

-----------------------------------------------------------------------------
(* The edges a resize handle keeps *)

WestHandles  == {"w", "nw", "sw"}
NorthHandles == {"n", "nw", "ne"}
AllHandles   == {"nw", "n", "ne", "e", "se", "s", "sw", "w"}

\* The edges of the shape before and after Shapes.resize with the handle.
KeepsEdges(shape, after, handle) ==
    /\ handle \in WestHandles
         => RAdd(after.x, after.width) = RAdd(shape.x, shape.width)
    /\ handle \in NorthHandles
         => RAdd(after.y, after.height) = RAdd(shape.y, shape.height)
    /\ handle \in {"e", "se", "s"} => (after.x = shape.x /\ after.y = shape.y)

\* C29: for a container shape and every delta, Shapes.resize with a west-side
\* handle leaves the right edge x + width unchanged, with a north-side handle
\* leaves the bottom edge y + height unchanged, and with e, se or s leaves x
\* and y unchanged.
C29_ResizeKeepsOppositeEdges ==
    \A i \in 1..Len(shapes) :
       ~ IsConnector(shapes[i])
       => \A handle \in AllHandles, d \in GeomMoves :
             KeepsEdges(shapes[i], resize(shapes[i], handle, d.x, d.y), handle)

-----------------------------------------------------------------------------
(* Undo and redo, one after the other *)

\* The shape list and both history stacks of s are those of the state.
SameHistory(s) ==
    /\ s.shapes = shapes
    /\ s.undoStack = undoStack
    /\ s.redoStack = redoStack

\* C30: with a non-empty undo stack, Tools.undo followed at once by Tools.redo
\* leaves the shape list and both history stacks as they were; with a
\* non-empty redo stack, so does Tools.redo followed at once by Tools.undo.
C30_UndoRedoRoundTrip ==
    /\ undoStack # <<>> => SameHistory(redo(undo(St)))
    /\ redoStack # <<>> => SameHistory(undo(redo(St)))

\* Both round trips start from a state where each step replaces the list,
\* the undo stack being one short of full.
C30_Witness ==
    /\ Len(undoStack) = MAX_STACK - 1
    /\ redoStack # <<>>
    /\ undo(St).shapes # shapes
    /\ redo(St).shapes # shapes
    /\ SameHistory(redo(undo(St)))
    /\ SameHistory(undo(redo(St)))
====
